---- MODULE Spec2Model ----
(***************************************************************************)
(* A model of the Washi annotation engine (packages/core, class Washi):    *)
(* the mount / unmount lifecycle with its generation counter, the comment  *)
(* cache (a JavaScript Map, kept here in insertion order), the pins drawn  *)
(* on the overlay, and the adapter calls of addComment / updateComment /   *)
(* deleteComment.  Every await of the source is a point where the model    *)
(* lets any other operation run.                                           *)
(***************************************************************************)
EXTENDS Integers, Sequences, FiniteSets, Bags, TLC

VARIABLES
    iframe,           \* this.iframe: the mounted target, or NoFrame
    options,          \* this.options: the MountOptions of the last mount()
    overlay,          \* this.overlay: the overlay node, or NoOverlay
    overlayPins,      \* the pin nodes that are children of the overlay (a bag)
    comments,         \* this.comments: Map<string, Comment>, in insertion order
    pins,             \* this.pins: Map<string, HTMLElement>
    mode,             \* this.mode
    contentReady,     \* this.contentReady
    activePinId,      \* this.activePinId
    dialog,           \* this.dialog: id of the comment the popover shows, or NoId
    mountGeneration,  \* this.mountGeneration
    tasks,            \* the suspended async calls (mount, add, update, delete)
    events,           \* every emit(), in order, with the cache its handlers saw
    adapterCalls,     \* every call made to the adapter, in order
    nextId,           \* source of crypto.randomUUID()
    now,              \* Date.now()
    opSeq,            \* number of asynchronous calls started so far
    scenario,         \* the bounds of this exploration, fixed from the start
    eventHandlers,    \* this.eventHandlers: the handlers of each event, in insertion order
    subscriptions,    \* the on() calls whose unsubscribe function was not called (a bag)
    overlayDialogs,   \* the popover nodes that are children of the overlay (a bag)
    scroll,           \* the target's scroll offset, the overlay's translation, the throttle
    store,            \* the Map of the MemoryAdapter, when the adapter is one
    provider,         \* the refs and the isReady state of WashiProvider
    last              \* the step taken last: the call or continuation and its outcome

vars == <<iframe, options, overlay, overlayPins, comments, pins, mode,
          contentReady, activePinId, dialog, mountGeneration, tasks, events,
          adapterCalls, nextId, now, opSeq, scenario, eventHandlers, subscriptions,
          overlayDialogs, scroll, store, provider, last>>

----------------------------------------------------------------------------
(* Bounds of the exploration *)

MaxGeneration == 3    \* mount() / unmount() calls explored when the lifecycle is the subject
MaxOps == 2           \* add / update / delete calls reaching the adapter when they are the subject
MaxClock == 3         \* largest value of Date.now()

MaxFrameGeneration == 2   \* mount() / unmount() calls explored on a target that takes animation frames
MaxModeChanges == 2       \* accepted setMode() calls explored when the mode is the subject
MaxHandlers == 2          \* handlers registered with on() at one time
MaxClicks == 1            \* clicks that emit an event (on the overlay, on a pin)
MaxScrolls == 2           \* scroll events of the target

\* Several kinds of run are explored.  "frames": mount and unmount of a target
\* whose content takes animation frames to settle, or of a target outside
\* the document.  "lifecycle": up to
\* MaxGeneration mount and unmount calls on a target whose wait returns at
\* once, with a single comment operation.  "comments": up to MaxOps comment
\* operations, each awaited before the next, after one mount has completed,
\* with getComments() calls whose result the caller changes.  "modes": mount
\* and unmount with or without readOnly, and setMode.  "ui": the popover and
\* the active pin of loaded comments, clicks on pins and one comment operation.
\* "remount": the popover and the active pin across three mount and unmount
\* calls with one updateComment.  "clicks": clicks on the overlay of a target
\* with a readable document.
\* "batch": two comment operations in flight at the same time during one
\* mount.
\* "rekey": one updateComment whose partial fields name id or createdAt.
\* "aliases": callers that assign to the comment objects addComment and the
\* events handed them.
\* "events": on() and its unsubscribe function, with handlers that throw.
\* "pointer": setMode, clicks on the overlay and scrolling of a target whose
\* document cannot be read, with or without readOnly.
\* A run with ops = 0 makes no call to addComment, updateComment or
\* deleteComment.
\* modes is the number of accepted setMode() calls; subscribes tells whether
\* the callers use on(), ui whether they open popovers and select pins,
\* reads whether they call getComments(); clicks is the number of clicks
\* that emit an event, scrolls the number of scroll events, calls the
\* comment operations the callers use, and overlap tells whether they call a
\* comment operation while another one is in flight; updates are the
\* Partial<Comment> values they pass besides UpdateInputs; holds tells
\* whether they assign to the objects they were handed.
\* adapter is "memory" when the adapter is a MemoryAdapter and the callers
\* await every call of the engine before the next one ("memory": a seeded
\* MemoryAdapter, mount, comment operations, unmount and mount again);
\* "any" is an adapter whose promises resolve or reject as they please.
\* react tells whether the engine belongs to a WashiProvider, whose
\* registerIframe makes the mount and unmount calls ("react": iframes
\* registered, unregistered and registered again while mounts are pending,
\* setMode and clicks on the overlay).
Scenarios ==
    {[name |-> "frames", generations |-> MaxFrameGeneration, ops |-> 0,
      targets |-> {"doc", "orphan"}, early |-> TRUE,
      readOnly |-> {FALSE}, modes |-> 0, ui |-> FALSE, subscribes |-> FALSE,
      reads |-> FALSE, clicks |-> 0, scrolls |-> 0,
      calls |-> {},
      overlap |-> FALSE, updates |-> {}, holds |-> FALSE, adapter |-> "any", react |-> FALSE],
     [name |-> "lifecycle", generations |-> MaxGeneration, ops |-> 1,
      targets |-> {"detached", "opaque"}, early |-> TRUE,
      readOnly |-> {FALSE}, modes |-> 0, ui |-> FALSE, subscribes |-> FALSE,
      reads |-> FALSE, clicks |-> 0, scrolls |-> 0,
      calls |-> {"add", "update", "delete"},
      overlap |-> FALSE, updates |-> {}, holds |-> FALSE, adapter |-> "any", react |-> FALSE],
     [name |-> "comments", generations |-> 1, ops |-> MaxOps,
      targets |-> {"opaque"}, early |-> FALSE,
      readOnly |-> {FALSE}, modes |-> 0, ui |-> FALSE, subscribes |-> FALSE,
      reads |-> TRUE, clicks |-> 0, scrolls |-> 0,
      calls |-> {"add", "update", "delete"},
      overlap |-> FALSE, updates |-> {}, holds |-> FALSE, adapter |-> "any", react |-> FALSE],
     [name |-> "modes", generations |-> MaxGeneration, ops |-> 0,
      targets |-> {"opaque"}, early |-> TRUE,
      readOnly |-> {FALSE, TRUE}, modes |-> MaxModeChanges, ui |-> FALSE,
      subscribes |-> FALSE, reads |-> FALSE, clicks |-> 0, scrolls |-> 0,
      calls |-> {},
      overlap |-> FALSE, updates |-> {}, holds |-> FALSE, adapter |-> "any", react |-> FALSE],
     [name |-> "ui", generations |-> 1, ops |-> 1,
      targets |-> {"opaque"}, early |-> FALSE,
      readOnly |-> {FALSE}, modes |-> 0, ui |-> TRUE, subscribes |-> FALSE,
      reads |-> FALSE, clicks |-> MaxClicks, scrolls |-> 0,
      calls |-> {"update", "delete"},
      overlap |-> FALSE, updates |-> {}, holds |-> FALSE, adapter |-> "any", react |-> FALSE],
     [name |-> "remount", generations |-> 3, ops |-> 1,
      targets |-> {"opaque"}, early |-> FALSE,
      readOnly |-> {FALSE}, modes |-> 0, ui |-> TRUE, subscribes |-> FALSE,
      reads |-> FALSE, clicks |-> 0, scrolls |-> 0,
      calls |-> {"update"},
      overlap |-> FALSE, updates |-> {}, holds |-> FALSE, adapter |-> "any", react |-> FALSE],
     [name |-> "clicks", generations |-> 1, ops |-> 0,
      targets |-> {"doc"}, early |-> TRUE,
      readOnly |-> {FALSE}, modes |-> 1, ui |-> FALSE, subscribes |-> FALSE,
      reads |-> FALSE, clicks |-> MaxClicks, scrolls |-> 0,
      calls |-> {},
      overlap |-> FALSE, updates |-> {}, holds |-> FALSE, adapter |-> "any", react |-> FALSE],
     [name |-> "batch", generations |-> 1, ops |-> 2,
      targets |-> {"opaque"}, early |-> FALSE,
      readOnly |-> {FALSE}, modes |-> 0, ui |-> FALSE, subscribes |-> FALSE,
      reads |-> FALSE, clicks |-> 0, scrolls |-> 0,
      calls |-> {"add", "update", "delete"},
      overlap |-> TRUE, updates |-> {}, holds |-> FALSE, adapter |-> "any", react |-> FALSE],
     [name |-> "rekey", generations |-> 1, ops |-> 1,
      targets |-> {"opaque"}, early |-> FALSE,
      readOnly |-> {FALSE}, modes |-> 0, ui |-> FALSE, subscribes |-> FALSE,
      reads |-> FALSE, clicks |-> 0, scrolls |-> 0,
      calls |-> {"update"},
      overlap |-> FALSE, updates |-> {[id |-> 102, x |-> 60], [createdAt |-> 0]}, holds |-> FALSE, adapter |-> "any", react |-> FALSE],
     [name |-> "aliases", generations |-> 1, ops |-> 1,
      targets |-> {"opaque"}, early |-> FALSE,
      readOnly |-> {FALSE}, modes |-> 0, ui |-> FALSE, subscribes |-> FALSE,
      reads |-> FALSE, clicks |-> 1, scrolls |-> 0,
      calls |-> {"add"},
      overlap |-> FALSE, updates |-> {}, holds |-> TRUE, adapter |-> "any", react |-> FALSE],
     [name |-> "events", generations |-> 1, ops |-> 1,
      targets |-> {"opaque"}, early |-> FALSE,
      readOnly |-> {FALSE}, modes |-> 0, ui |-> FALSE, subscribes |-> TRUE,
      reads |-> FALSE, clicks |-> 0, scrolls |-> 0,
      calls |-> {"add", "delete"},
      overlap |-> FALSE, updates |-> {}, holds |-> FALSE, adapter |-> "any", react |-> FALSE],
     [name |-> "pointer", generations |-> 1, ops |-> 0,
      targets |-> {"opaque"}, early |-> TRUE,
      readOnly |-> {FALSE, TRUE}, modes |-> 1, ui |-> FALSE, subscribes |-> FALSE,
      reads |-> FALSE, clicks |-> MaxClicks, scrolls |-> MaxScrolls,
      calls |-> {},
      overlap |-> FALSE, updates |-> {}, holds |-> FALSE, adapter |-> "any", react |-> FALSE],
     [name |-> "memory", generations |-> 3, ops |-> 1,
      targets |-> {"opaque"}, early |-> FALSE,
      readOnly |-> {FALSE}, modes |-> 0, ui |-> FALSE, subscribes |-> FALSE,
      reads |-> FALSE, clicks |-> 0, scrolls |-> 0,
      calls |-> {"add", "update", "delete"},
      overlap |-> FALSE, updates |-> {[id |-> 102, x |-> 60]}, holds |-> FALSE,
      adapter |-> "memory", react |-> FALSE],
     [name |-> "react", generations |-> 3, ops |-> 0,
      targets |-> {"doc"}, early |-> TRUE,
      readOnly |-> {FALSE}, modes |-> 1, ui |-> FALSE, subscribes |-> FALSE,
      reads |-> FALSE, clicks |-> 1, scrolls |-> 0,
      calls |-> {},
      overlap |-> FALSE, updates |-> {}, holds |-> FALSE, adapter |-> "any",
      react |-> TRUE]}

----------------------------------------------------------------------------
(* Values *)

NoFrame == "none"
NoId == 0
\* no overlay node; an attached overlay is [attached |-> TRUE, capture |-> ...]
NoOverlay == [attached |-> FALSE]
\* options === undefined: every optional flag reads as falsy
NoOptions == [readOnly |-> FALSE, disableBuiltinDialog |-> FALSE]

\* JavaScript numbers: the integers below stand for themselves and NaN is
\* encoded by an integer outside every other value used.
NaN == -999

\* x < y and x > y of JavaScript: false whenever an operand is NaN
Lt(a, b) == a /= NaN /\ b /= NaN /\ a < b
Gt(a, b) == a /= NaN /\ b /= NaN /\ a > b

\* the mount targets: an iframe without a parent element ("detached"), an
\* iframe inside a subtree that is not in any document ("orphan"), and two
\* iframes attached to the page, one whose contentDocument cannot be read
\* ("opaque") and one with a readable document ("doc")
Targets == {"detached", "orphan", "opaque", "doc"}
HasParent(t) == t /= "detached"
InDocument(t) == t \in {"opaque", "doc"}
HasContentDocument(t) == t = "doc"


\* the sizes getContentSize() can report, as <<scrollWidth, scrollHeight>>
ZeroSize == <<0, 0>>
Sizes == {ZeroSize, <<8, 6>>}

\* the for-loop bound of waitForContentReady
StabilizationFrames == 10
\* stableCount >= 2 ends the wait
StableSamples == 2

\* the delay of the scroll throttle, in milliseconds
ThrottleDelay == 16

\* the scroll state before anything scrolled: offset is the target's scroll
\* offset (one number stands for the pair scrollX, scrollY), shift the
\* translation of the overlay, lastCall the throttle's lastCall, clock the
\* Date.now() of the latest scroll event (far beyond the delay from the start)
\* and count the scroll events so far
NoScroll == [offset |-> 0, shift |-> 0, lastCall |-> 0, clock |-> ThrottleDelay,
             count |-> 0]

\* 1 / 0 and -1 / 0 of JavaScript, as integers beyond every other value
PosInfinity == 1000000
NegInfinity == -1000000

\* WASHI_COLORS[0] and the colour of a resolved pin
DefaultColor == "#667eea"
ResolvedColor == "#10b981"
\* the text of a resolved pin
CheckMark == 0

----------------------------------------------------------------------------
(* Map<string, Comment> as a sequence of entries [k, v] in insertion order *)

Keys(m) == {m[i].k : i \in 1..Len(m)}

MapHas(m, key) == key \in Keys(m)

MapGet(m, key) == m[CHOOSE i \in 1..Len(m) : m[i].k = key].v

\* Map.set: an existing key keeps its place, a new key goes last
MapSet(m, key, val) ==
    IF MapHas(m, key)
    THEN [i \in 1..Len(m) |-> IF m[i].k = key THEN [k |-> key, v |-> val] ELSE m[i]]
    ELSE Append(m, [k |-> key, v |-> val])

MapDelete(m, key) == SelectSeq(m, LAMBDA e : e.k /= key)

\* Array.from(map.values())
Values(m) == [i \in 1..Len(m) |-> m[i].v]

\* { ...a, ...b }
Spread(a, b) ==
    [f \in (DOMAIN a) \cup (DOMAIN b) |-> IF f \in DOMAIN b THEN b[f] ELSE a[f]]

Has(r, f) == f \in DOMAIN r

----------------------------------------------------------------------------
(* Pure functions of the engine *)

\* validateCoordinates throws
CoordinatesThrow(x, y) == Lt(x, 0) \/ Gt(x, 100) \/ Lt(y, 0) \/ Gt(y, 100)

\* getCommentIndex: the position of the first comment with this id after a
\* stable sort by createdAt, or -1
getCommentIndex(m, commentId) ==
    LET vals == Values(m)
        pos(i) == Cardinality({j \in 1..Len(vals) :
                      \/ vals[j].createdAt < vals[i].createdAt
                      \/ vals[j].createdAt = vals[i].createdAt /\ j < i})
        hits == {pos(i) : i \in {j \in 1..Len(vals) : vals[j].id = commentId}}
    IN  IF hits = {} THEN -1 ELSE CHOOSE p \in hits : \A q \in hits : p <= q

\* getComments(): copies of the cached comments, in insertion order
getComments == Values(comments)

\* isReady()
isReady == contentReady /\ iframe /= NoFrame

----------------------------------------------------------------------------
(* The pins.  A drawing state d is [pins, overlayPins]. *)

\* the node renderPin builds for a comment
PinNode(comment, m, active) ==
    LET index == getCommentIndex(m, comment.id)
        isResolved == Has(comment, "resolved") /\ comment.resolved
    IN  [id |-> comment.id,
         index |-> index,
         label |-> IF isResolved THEN CheckMark ELSE index + 1,
         active |-> (active = comment.id),
         resolved |-> isResolved,
         color |-> IF isResolved THEN ResolvedColor
                   ELSE IF Has(comment, "color") THEN comment.color ELSE DefaultColor,
         x |-> comment.x,
         y |-> comment.y,
         comment |-> comment]

\* pin.remove(): detach one node from the overlay
DetachNode(bag, pin) == IF BagIn(pin, bag) THEN bag (-) SetToBag({pin}) ELSE bag

\* a renderPin that registers the node without appending it to the overlay
renderPin_NotAppended(d, comment, m, ifr, active) ==
    IF ifr = NoFrame THEN d
    ELSE [pins |-> MapSet(d.pins, comment.id, PinNode(comment, m, active)),
          overlayPins |-> d.overlayPins]

\* renderPin
renderPin(d, comment, m, ifr, active) ==
    IF ifr = NoFrame THEN d
    ELSE LET pin == PinNode(comment, m, active)
         IN  [pins |-> MapSet(d.pins, comment.id, pin),
              overlayPins |-> d.overlayPins (+) SetToBag({pin})]

\* const pin = pins.get(id); if (pin) { pin.remove(); pins.delete(id) }
removePin(d, id) ==
    IF MapHas(d.pins, id)
    THEN [pins |-> MapDelete(d.pins, id),
          overlayPins |-> DetachNode(d.overlayPins, MapGet(d.pins, id))]
    ELSE d

\* setAttribute / removeAttribute of data-washi-active on the node pins.get(id)
MarkActive(d, id, flag) ==
    IF id /= NoId /\ MapHas(d.pins, id)
    THEN LET old == MapGet(d.pins, id)
             new == [old EXCEPT !.active = flag]
         IN  [pins |-> MapSet(d.pins, id, new),
              overlayPins |-> IF BagIn(old, d.overlayPins)
                              THEN (d.overlayPins (-) SetToBag({old})) (+) SetToBag({new})
                              ELSE d.overlayPins]
    ELSE d

\* setActivePin(commentId) on the nodes; this.activePinId becomes commentId
setActivePin(d, active, commentId) ==
    MarkActive(MarkActive(d, active, FALSE), commentId, TRUE)

RECURSIVE DetachAll(_, _)
DetachAll(bag, entries) ==
    IF entries = << >> THEN bag
    ELSE DetachAll(DetachNode(bag, Head(entries).v), Tail(entries))

RECURSIVE RenderEach(_, _, _, _, _)
RenderEach(d, list, m, ifr, active) ==
    IF list = << >> THEN d
    ELSE RenderEach(renderPin(d, Head(list), m, ifr, active), Tail(list), m, ifr, active)

\* refreshPinPositions
refreshPinPositions(d, m, ifr, ovl, active) ==
    IF ifr = NoFrame \/ ~ovl.attached THEN d
    ELSE LET kept == SelectSeq(d.pins, LAMBDA e : MapHas(m, e.k))
             commentsToRerender == [i \in 1..Len(kept) |-> MapGet(m, kept[i].k)]
         IN  RenderEach([pins |-> << >>, overlayPins |-> DetachAll(d.overlayPins, d.pins)],
                        commentsToRerender, m, ifr, active)

----------------------------------------------------------------------------
(* The adapter is an external collaborator: load() answers with any of the  *)
(* lists below or rejects, and save / update / delete resolve or reject.    *)

StoredA == [id |-> 101, x |-> 10, y |-> 20, text |-> "a", createdAt |-> 2]
\* a stored comment the engine never validated, older than StoredA
StoredB == [id |-> 102, x |-> 150, y |-> 20, text |-> "b", createdAt |-> 1]

LoadResults == {<< >>, <<StoredA>>, <<StoredA, StoredB>>}

----------------------------------------------------------------------------
(* MemoryAdapter.  Its Map is s; an operation gives the Map it leaves and
   the way its promise settles. *)

\* seed(comments): comments.forEach((c) => this.comments.set(c.id, c))
RECURSIVE seed(_, _)
seed(s, list) ==
    IF list = << >> THEN s
    ELSE seed(MapSet(s, Head(list).id, Head(list)), Tail(list))

\* save(comment)
memorySave(s, comment) ==
    [store |-> MapSet(s, comment.id, comment), settles |-> "resolved"]

\* load()
memoryLoad(s) == Values(s)

\* update(id, updates)
memoryUpdate(s, id, updates) ==
    IF ~MapHas(s, id) THEN [store |-> s, settles |-> "rejected"]
    ELSE [store |-> MapSet(s, id, Spread(MapGet(s, id), updates)),
          settles |-> "resolved"]

\* delete(id)
memoryDelete(s, id) ==
    IF ~MapHas(s, id) THEN [store |-> s, settles |-> "rejected"]
    ELSE [store |-> MapDelete(s, id), settles |-> "resolved"]

----------------------------------------------------------------------------
(* Bookkeeping *)

\* this.eventHandlers.get(event): the handlers registered for one event, in
\* the order of their registration
HandlersOf(name) ==
    LET regs == SelectSeq(eventHandlers, LAMBDA r : r.event = name)
    IN  [i \in 1..Len(regs) |-> regs[i].handler]

\* handlers.add(handler): a Set keeps one entry per handler, in insertion order
SetAdd(regs, reg) ==
    IF \E i \in 1..Len(regs) : regs[i] = reg THEN regs ELSE Append(regs, reg)

\* handlers.delete(handler)
SetDelete(regs, reg) == SelectSeq(regs, LAMBDA r : r /= reg)

\* the handlers that throw when they are called
ThrowingHandlers == {2}

\* a forEach without the try / catch: the first handler that throws ends the
\* loop and the exception leaves emit
RunHandlers_NoCatch(handlers) ==
    LET throwers == {i \in 1..Len(handlers) : handlers[i] \in ThrowingHandlers}
        first == IF throwers = {} THEN Len(handlers)
                 ELSE CHOOSE i \in throwers : \A j \in throwers : i <= j
    IN  [ran |-> SubSeq(handlers, 1, first), thrown |-> throwers /= {}]

\* handlers.forEach((handler) => { try { handler(data) } catch { log } }):
\* the handlers that ran and whether an exception left emit
RunHandlers(handlers) == [ran |-> handlers, thrown |-> FALSE]

\* emit(): the event, its payload, the handlers it invokes and the cache as a
\* handler reads it
Emitted(log, name, payload, m) ==
    Append(log, [name |-> name, payload |-> payload, seen |-> Values(m),
                 invoked |-> RunHandlers(HandlersOf(name)).ran])

\* an exception left emit(name, ...)
EmitThrows(name) == RunHandlers(HandlersOf(name)).thrown

\* how a call ends whose last statement is emit(name, ...)
AfterEmit(name) == IF EmitThrows(name) THEN "rejected" ELSE "resolved"

\* what a caller can observe of the engine
Observable ==
    [iframe |-> iframe, overlay |-> overlay, comments |-> comments, pins |-> pins,
     overlayPins |-> overlayPins, events |-> events, adapterCalls |-> adapterCalls]

MountTasks == {t \in tasks : t.kind = "mount"}

\* the engine belongs to a WashiProvider, which makes the mount and unmount
\* calls
IsReact == scenario.react

\* the variables of the engine and its adapter, without the handlers
engine ==
    <<iframe, options, overlay, overlayPins, comments, pins, mode, contentReady,
      activePinId, dialog, mountGeneration, tasks, events, adapterCalls, nextId,
      now, opSeq, scenario, subscriptions, overlayDialogs, scroll, store>>

\* the provider before any iframe was registered.  iframeRef is
\* iframeRef.current, cleanups washiEventCleanupsRef.current (the
\* registrations its functions remove), listener the iframe that carries the
\* 'load' listener iframeLoadCleanupRef.current removes, loads the handleLoad
\* calls suspended at await washi.mount, each with the mount it awaits and the
\* iframe it captured.  cancelled (registerIframe(null) ran while the call was
\* suspended) and readyBy (the handleLoad call that last ran setIsReady(true))
\* are kept for the properties only.
NoLoad == [tid |-> 0, iframe |-> NoFrame, cancelled |-> FALSE]
NoProvider ==
    [iframeRef |-> NoFrame, isReady |-> FALSE, cleanups |-> << >>,
     listener |-> NoFrame, loads |-> {}, readyBy |-> NoLoad]

\* the engine events handleLoad subscribes to, in its order
ProviderEvents ==
    <<"pin:placed", "comment:clicked", "comment:updated", "comment:deleted">>

\* the arrow functions one handleLoad call passes to washi.on: new functions
\* at every call, named by the negated number of the mount the call awaited
ProviderRegs(h) ==
    [i \in 1..Len(ProviderEvents) |->
        [event |-> ProviderEvents[i], handler |-> -h.tid]]

\* washi.on(...) for each of regs
RECURSIVE OnEach(_, _)
OnEach(handlers, regs) ==
    IF regs = << >> THEN handlers
    ELSE OnEach(SetAdd(handlers, Head(regs)), Tail(regs))

\* washiEventCleanupsRef.current.forEach((fn) => fn())
RECURSIVE CleanupEach(_, _)
CleanupEach(handlers, regs) ==
    IF regs = << >> THEN handlers
    ELSE CleanupEach(SetDelete(handlers, Head(regs)), Tail(regs))

\* the test after await washi.mount: iframeRef.current !== iframe returns
StillRegistered(h) == provider.iframeRef = h.iframe

\* handleLoad after await washi.mount(iframe, mountOptions) of mount task t:
\* the provider and this.eventHandlers it leaves.  The provider is given no
\* initialMode, so washi.setMode is not called; setComments and setError
\* write state nothing here reads.
AfterMount(t) ==
    IF ~IsReact THEN [provider |-> provider, eventHandlers |-> eventHandlers]
    ELSE LET h == CHOOSE x \in provider.loads : x.tid = t.tid
             p == [provider EXCEPT !.loads = @ \ {h}]
         IN  IF ~StillRegistered(h)
             THEN [provider |-> p, eventHandlers |-> eventHandlers]
             ELSE [provider |-> [p EXCEPT !.isReady = TRUE, !.readyBy = h,
                                          !.cleanups = @ \o ProviderRegs(h)],
                   eventHandlers |-> OnEach(eventHandlers, ProviderRegs(h))]

\* the page of a provider shows its tools, and its user clicks the overlay,
\* once the provider reports isReady and no mount is pending
PageActs == ~IsReact \/ (provider.isReady /\ tasks = {})

\* the adapter of this run is a MemoryAdapter
IsMemory == scenario.adapter = "memory"

\* what the adapter does with a call: the Map it leaves and how the promise
\* it returned settles ("either" when the adapter is not a MemoryAdapter)
AdapterDoes(done) ==
    IF IsMemory THEN done ELSE [store |-> store, settles |-> "either"]

\* the callers of this run make a call of the engine now
Awaited == ~IsMemory \/ tasks = {}

\* what the promise of adapter.load() can resolve with
LoadOutcomes(t) ==
    IF IsMemory /\ t.kind = "mount" THEN {t.loaded} ELSE LoadResults

\* the callers of this run issue a comment operation of this kind now
CallsAllowed(kind) ==
    /\ scenario.ops > 0
    /\ kind \in scenario.calls
    /\ \/ scenario.early
       \/ tasks = {}
       \/ scenario.overlap /\ MountTasks = {}

\* the (id, updates) pairs callers pass to updateComment
UpdateArgs(inputs, unknown) ==
    {a \in (Keys(comments) \cup {unknown}) \X inputs :
        a[1] = unknown => a[2] = [text |-> "edited"]}

\* unmount() ran while the call was suspended (kept for the properties only)
Cancel(ts) == {[t EXCEPT !.cancelled = TRUE] : t \in ts}

Init ==
    /\ iframe = NoFrame
    /\ options = NoOptions
    /\ overlay = NoOverlay
    /\ overlayPins = EmptyBag
    /\ comments = << >>
    /\ pins = << >>
    /\ mode = "view"
    /\ contentReady = FALSE
    /\ activePinId = NoId
    /\ dialog = NoId
    /\ mountGeneration = 0
    /\ tasks = {}
    /\ events = << >>
    /\ adapterCalls = << >>
    /\ nextId = 1
    /\ now = 2
    /\ opSeq = 0
    /\ scenario \in Scenarios
    /\ eventHandlers = << >>
    /\ subscriptions = EmptyBag
    /\ overlayDialogs = EmptyBag
    /\ scroll = NoScroll
    /\ store \in {seed(<< >>, list) :
                     list \in IF IsMemory THEN LoadResults ELSE {<< >>}}
    /\ provider = NoProvider
    /\ last = [op |-> "init"]

----------------------------------------------------------------------------
(* mount *)

\* createOverlay
createOverlay == [attached |-> TRUE, capture |-> (mode = "annotate")]

\* the guards of mount, in the order of the source
MountError(target) ==
    IF iframe /= NoFrame THEN "alreadyMounted"
    ELSE IF ~HasParent(target) THEN "notAttached"
    ELSE "none"

\* mount(iframe, options) up to its first await; waitForContentReady runs
\* synchronously up to its own first await.  The overlay's pixel size, the
\* parent's position style and the click / wheel / scroll listeners are left
\* out: nothing modelled here reads them.
mount(target, opts) ==
    /\ mountGeneration' = mountGeneration + 1
    /\ iframe' = target
    /\ options' = opts
    /\ overlay' = createOverlay
    /\ contentReady' = TRUE
    /\ tasks' = tasks \cup
          {[kind |-> "mount", tid |-> mountGeneration + 1,
            generation |-> mountGeneration + 1,
            pc |-> IF HasContentDocument(target) THEN "raf0" ELSE "resume",
            i |-> 0, lastSize |-> ZeroSize, stableCount |-> 0,
            loaded |-> << >>, cancelled |-> FALSE]}
    /\ scroll' = [scroll EXCEPT !.shift = 0, !.lastCall = 0]
    /\ UNCHANGED <<overlayPins, comments, pins, mode, activePinId, dialog,
                   events, adapterCalls, nextId, now, opSeq, scenario,
                   subscriptions, overlayDialogs, store>>

\* a call of mount(iframe, options) by a caller that holds the engine
MountCall(target, opts) ==
    /\ ~IsReact
    /\ IF MountError(target) /= "none" THEN
           /\ last' = [op |-> "mount", target |-> target, outcome |-> "rejected",
                       error |-> MountError(target)]
           /\ UNCHANGED <<engine, eventHandlers, provider>>
       ELSE
           /\ Awaited
           /\ mountGeneration < scenario.generations
           /\ mount(target, opts)
           /\ last' = [op |-> "mount", target |-> target, outcome |-> "pending",
                       error |-> "none"]
           /\ UNCHANGED <<eventHandlers, provider>>

\* what getContentSize() can return now
ContentSizes ==
    IF iframe /= NoFrame /\ HasContentDocument(iframe) THEN Sizes ELSE {ZeroSize}

\* stableCount after a sample of the loop
NextStable(t, size) ==
    IF size = t.lastSize /\ size[1] > 0 /\ size[2] > 0 THEN t.stableCount + 1 ELSE 0

\* a loop whose counter starts again whenever the sample is not a stable one
NextFrameIndex_ResetsWhenUnstable(t, size) ==
    IF NextStable(t, size) = 0 THEN 0 ELSE t.i + 1

\* i++ of the for loop
NextFrameIndex(t, size) == t.i + 1

\* the sample that ends waitForContentReady
WaitEnds(t, size) ==
    /\ t.pc = "loop"
    /\ \/ NextStable(t, size) >= StableSamples
       \/ NextFrameIndex(t, size) >= StabilizationFrames

\* a test of "still mounted" in place of the generation test
SameGeneration_Mounted(t) == iframe /= NoFrame

\* the generation test after an await: TRUE when the continuation goes on
SameGeneration(t) == mountGeneration = t.generation

\* mount() from the end of the wait to the adapter.load() call
\* (updateOverlayDimensions only resizes the overlay)
AfterWait(t) ==
    IF ~SameGeneration(t) THEN
        /\ tasks' = tasks \ {t}
        /\ last' = [op |-> "mountContinue", outcome |-> "abandoned", task |-> t]
        /\ provider' = AfterMount(t).provider
        /\ eventHandlers' = AfterMount(t).eventHandlers
        /\ UNCHANGED adapterCalls
    ELSE
        /\ tasks' = (tasks \ {t}) \cup
              {[t EXCEPT !.pc = "load",
                         !.loaded = IF IsMemory THEN memoryLoad(store) ELSE << >>]}
        /\ adapterCalls' = Append(adapterCalls, [op |-> "load"])
        /\ last' = [op |-> "mountContinue", outcome |-> "loading", task |-> t]
        /\ UNCHANGED <<provider, eventHandlers>>

\* one animation frame of waitForContentReady that does not end the wait
MountFrame(t, size) ==
    /\ t \in MountTasks
    /\ t.pc \in {"raf0", "loop"}
    /\ size \in ContentSizes
    /\ ~WaitEnds(t, size)
    /\ tasks' = (tasks \ {t}) \cup
          {IF t.pc = "raf0"
           THEN [t EXCEPT !.pc = "loop", !.lastSize = size]
           ELSE [t EXCEPT !.i = NextFrameIndex(t, size), !.lastSize = size,
                          !.stableCount = NextStable(t, size)]}
    /\ last' = [op |-> "mountFrame", task |-> t]
    /\ UNCHANGED <<iframe, options, overlay, overlayPins, comments, pins, mode,
                   contentReady, activePinId, dialog, mountGeneration, events,
                   adapterCalls, nextId, now, opSeq, scenario, eventHandlers, subscriptions, overlayDialogs, scroll, store, provider>>

\* the frame that ends the wait, and mount() resuming after it
MountWaitEnd(t, size) ==
    /\ t \in MountTasks
    /\ size \in ContentSizes
    /\ WaitEnds(t, size)
    /\ AfterWait(t)
    /\ UNCHANGED <<iframe, options, overlay, overlayPins, comments, pins, mode,
                   contentReady, activePinId, dialog, mountGeneration, events,
                   nextId, now, opSeq, scenario, subscriptions, overlayDialogs,
                   scroll, store>>

\* mount() resuming when waitForContentReady returned without waiting
MountResume(t) ==
    /\ t \in MountTasks
    /\ t.pc = "resume"
    /\ AfterWait(t)
    /\ UNCHANGED <<iframe, options, overlay, overlayPins, comments, pins, mode,
                   contentReady, activePinId, dialog, mountGeneration, events,
                   nextId, now, opSeq, scenario, subscriptions, overlayDialogs,
                   scroll, store>>

\* comments.forEach((comment) => { comments.set(...); renderPin(comment) })
RECURSIVE LoadEach(_, _, _, _)
LoadEach(list, st, ifr, active) ==
    IF list = << >> THEN st
    ELSE LET c == Head(list)
             m == MapSet(st.comments, c.id, c)
             d == renderPin([pins |-> st.pins, overlayPins |-> st.overlayPins],
                            c, m, ifr, active)
         IN  LoadEach(Tail(list),
                      [comments |-> m, pins |-> d.pins, overlayPins |-> d.overlayPins],
                      ifr, active)

\* adapter.load() resolved with list
MountLoadResolve(t, list) ==
    /\ t \in MountTasks
    /\ t.pc = "load"
    /\ list \in LoadOutcomes(t)
    /\ tasks' = tasks \ {t}
    /\ IF ~SameGeneration(t) THEN
           /\ last' = [op |-> "mountLoaded", adapter |-> "resolved", list |-> list,
                       task |-> t, outcome |-> "abandoned"]
           /\ UNCHANGED <<comments, pins, overlayPins>>
       ELSE
           LET st == LoadEach(list, [comments |-> comments, pins |-> pins,
                                      overlayPins |-> overlayPins],
                              iframe, activePinId)
           IN  /\ comments' = st.comments
               /\ pins' = st.pins
               /\ overlayPins' = st.overlayPins
               /\ last' = [op |-> "mountLoaded", adapter |-> "resolved", list |-> list,
                           task |-> t, outcome |-> "resolved"]
    /\ provider' = AfterMount(t).provider
    /\ eventHandlers' = AfterMount(t).eventHandlers
    /\ UNCHANGED <<iframe, options, overlay, mode, contentReady, activePinId,
                   dialog, mountGeneration, events, adapterCalls, nextId, now, opSeq,
                   scenario, subscriptions, overlayDialogs, scroll, store>>

\* a catch block that swallows the rejection
LoadFailed_Silent(log, m) == log

\* the catch block of mount: emit('error', { type: 'load', ... })
LoadFailed(log, m) == Emitted(log, "error", [type |-> "load"], m)

\* adapter.load() rejected: the catch block emits the error event
MountLoadReject(t) ==
    /\ t \in MountTasks
    /\ t.pc = "load"
    /\ ~IsMemory
    /\ tasks' = tasks \ {t}
    /\ events' = LoadFailed(events, comments)
    /\ last' = [op |-> "mountLoaded", adapter |-> "rejected", task |-> t,
                outcome |-> AfterEmit("error")]
    /\ provider' = AfterMount(t).provider
    /\ eventHandlers' = AfterMount(t).eventHandlers
    /\ UNCHANGED <<iframe, options, overlay, overlayPins, comments, pins, mode,
                   contentReady, activePinId, dialog, mountGeneration,
                   adapterCalls, nextId, now, opSeq, scenario, subscriptions,
                   overlayDialogs, scroll, store>>

----------------------------------------------------------------------------
(* unmount *)

\* this.dialog.remove(): the popover node leaves the overlay
DetachDialog(bag, dlg) ==
    IF dlg /= NoId /\ BagIn(dlg, bag) THEN bag (-) SetToBag({dlg}) ELSE bag

\* this.overlay.remove() without the optional chaining
OverlayRemoveThrows_Unguarded == overlay = NoOverlay

\* this.overlay?.remove(): no throw when there is no overlay
OverlayRemoveThrows == FALSE

\* unmount(): the generation moves on, hidePinDialog() closes the popover and
\* clears the active pin, then the overlay goes and the engine is cleared.
\* this.options, this.mode and this.eventHandlers are not assigned.
unmount ==
    /\ mountGeneration' = mountGeneration + 1
    /\ dialog' = NoId
    /\ activePinId' = NoId
    /\ tasks' = Cancel(tasks)
    /\ IF OverlayRemoveThrows THEN
           /\ overlayDialogs' = DetachDialog(overlayDialogs, dialog)
           /\ UNCHANGED <<overlay, overlayPins, pins, comments, iframe, contentReady,
                          scroll>>
       ELSE
           /\ overlay' = NoOverlay
           /\ overlayPins' = EmptyBag
           /\ overlayDialogs' = EmptyBag
           /\ scroll' = [scroll EXCEPT !.shift = 0]
           /\ pins' = << >>
           /\ comments' = << >>
           /\ iframe' = NoFrame
           /\ contentReady' = FALSE
    /\ UNCHANGED <<options, mode, events, adapterCalls, nextId, now, opSeq, scenario,
                   subscriptions, store>>

\* a call of unmount() by a caller that holds the engine
Unmount ==
    /\ ~IsReact
    /\ Awaited
    /\ mountGeneration < scenario.generations
    /\ unmount
    /\ last' = [op |-> "unmount",
                outcome |-> IF OverlayRemoveThrows THEN "rejected" ELSE "resolved",
                repeated |-> (last.op = "unmount")]
    /\ UNCHANGED <<eventHandlers, provider>>

----------------------------------------------------------------------------
(* addComment *)

\* the NewComment values callers pass
AddInputs ==
    {[x |-> 50, y |-> 50, text |-> "hi"],
     [x |-> 0, y |-> 100, text |-> "edge"],
     [x |-> 150, y |-> 50, text |-> "hi"],
     [x |-> 50, y |-> -1, text |-> "hi"],
     [x |-> 10, y |-> 10, text |-> ""]}

\* a synchronous throw: nothing but the record of the call changes
Throws(op, input, error) ==
    /\ last' = [op |-> op, input |-> input, outcome |-> "rejected", error |-> error]
    /\ UNCHANGED <<iframe, options, overlay, overlayPins, comments, pins, mode,
                   contentReady, activePinId, dialog, mountGeneration, tasks,
                   events, adapterCalls, nextId, now, opSeq, scenario, eventHandlers, subscriptions, overlayDialogs, scroll, store, provider>>

\* the guards of addComment with the mounted test moved last
AddError_ValidatesFirst(input) ==
    IF input.text = "" THEN "invalid"
    ELSE IF CoordinatesThrow(input.x, input.y) THEN "validation"
    ELSE IF iframe = NoFrame THEN "notMounted"
    ELSE "none"

\* the guards of addComment, in the order of the source
AddError(input) ==
    IF iframe = NoFrame THEN "notMounted"
    ELSE IF input.text = "" THEN "invalid"
    ELSE IF CoordinatesThrow(input.x, input.y) THEN "validation"
    ELSE "none"

\* a comment built with the input spread last and no timestamp of its own
NewComment_NoTimestamp(input, id, t) == Spread([id |-> id, createdAt |-> 0], input)

\* { ...input, id: crypto.randomUUID(), createdAt: Date.now() }
NewComment(input, id, t) == Spread(input, [id |-> id, createdAt |-> t])

\* addComment(input) up to await adapter.save(comment)
AddCall(input, t) ==
    /\ CallsAllowed("add")
    /\ input \in AddInputs
    /\ IF AddError(input) /= "none" THEN
           /\ t = now
           /\ Throws("addComment", input, AddError(input))
       ELSE
           LET comment == NewComment(input, nextId, t)
               m == MapSet(comments, comment.id, comment)
               d == renderPin([pins |-> pins, overlayPins |-> overlayPins],
                              comment, m, iframe, activePinId)
           IN  /\ opSeq < scenario.ops
               /\ t \in now..(now + 1)
               /\ t <= MaxClock
               /\ now' = t
               /\ nextId' = nextId + 1
               /\ opSeq' = opSeq + 1
               /\ comments' = m
               /\ pins' = d.pins
               /\ overlayPins' = d.overlayPins
               /\ adapterCalls' = Append(adapterCalls, [op |-> "save", comment |-> comment])
               /\ store' = AdapterDoes(memorySave(store, comment)).store
               /\ tasks' = tasks \cup
                     {[kind |-> "add", tid |-> opSeq + 1, input |-> input,
                       comment |-> comment, cancelled |-> FALSE,
                       settles |-> AdapterDoes(memorySave(store, comment)).settles,
                       pre |-> Observable,
                       mid |-> [Observable EXCEPT
                                  !.comments = m, !.pins = d.pins,
                                  !.overlayPins = d.overlayPins,
                                  !.adapterCalls = adapterCalls']]}
               /\ last' = [op |-> "addComment", input |-> input,
                           outcome |-> "pending", error |-> "none"]
               /\ UNCHANGED <<iframe, options, overlay, mode, contentReady,
                              activePinId, dialog, mountGeneration, events, scenario,
                              eventHandlers, subscriptions, overlayDialogs, scroll, provider>>

\* a catch block that removes the pin and forgets the cache entry
AddRollback_KeepsEntry(d, m, id) ==
    LET r == removePin(d, id)
    IN  [comments |-> m, pins |-> r.pins, overlayPins |-> r.overlayPins]

\* the catch block of addComment
AddRollback(d, m, id) ==
    LET r == removePin(d, id)
    IN  [comments |-> MapDelete(m, id), pins |-> r.pins, overlayPins |-> r.overlayPins]

\* adapter.save resolved: emit and return the comment; emit is inside the try,
\* so an exception that left it would run the catch block
AddResolve(t) ==
    /\ t \in tasks
    /\ t.kind = "add"
    /\ t.settles /= "rejected"
    /\ tasks' = tasks \ {t}
    /\ events' = Emitted(events, "comment:created", t.comment, comments)
    /\ LET st == IF EmitThrows("comment:created")
                 THEN AddRollback([pins |-> pins, overlayPins |-> overlayPins],
                                  comments, t.comment.id)
                 ELSE [comments |-> comments, pins |-> pins,
                       overlayPins |-> overlayPins]
       IN  /\ comments' = st.comments
           /\ pins' = st.pins
           /\ overlayPins' = st.overlayPins
    /\ last' = [op |-> "addSettled", adapter |-> "resolved", task |-> t,
                outcome |-> AfterEmit("comment:created"),
                error |-> IF EmitThrows("comment:created") THEN "save" ELSE "none",
                value |-> t.comment, isolated |-> (Observable = t.mid)]
    /\ UNCHANGED <<iframe, options, overlay, mode,
                   contentReady, activePinId, dialog, mountGeneration,
                   adapterCalls, nextId, now, opSeq, scenario, eventHandlers,
                   subscriptions, overlayDialogs, scroll, store, provider>>

\* adapter.save rejected: roll back and throw
AddReject(t) ==
    /\ t \in tasks
    /\ t.kind = "add"
    /\ t.settles /= "resolved"
    /\ tasks' = tasks \ {t}
    /\ LET st == AddRollback([pins |-> pins, overlayPins |-> overlayPins],
                             comments, t.comment.id)
       IN  /\ comments' = st.comments
           /\ pins' = st.pins
           /\ overlayPins' = st.overlayPins
    /\ last' = [op |-> "addSettled", adapter |-> "rejected", task |-> t,
                outcome |-> "rejected", error |-> "saveFailed",
                isolated |-> (Observable = t.mid)]
    /\ UNCHANGED <<iframe, options, overlay, mode, contentReady, activePinId,
                   dialog, mountGeneration, events, adapterCalls, nextId, now, opSeq, scenario, eventHandlers, subscriptions, overlayDialogs, scroll, store, provider>>

----------------------------------------------------------------------------
(* updateComment *)

\* an id no comment has
UnknownId == 999

\* the Partial<Comment> values callers pass
UpdateInputs ==
    {[text |-> "edited"],
     [x |-> 60],
     [x |-> 150],
     [y |-> NaN],
     [resolved |-> TRUE]}

\* the Partial<Comment> values the callers of this run pass
CallerUpdates == UpdateInputs \cup scenario.updates

\* updates.f ?? comment.f
Coalesce(updates, comment, f) == IF Has(updates, f) THEN updates[f] ELSE comment[f]

\* the guards of updateComment, in the order of the source
UpdateError(id, updates) ==
    IF ~MapHas(comments, id) THEN "notFound"
    ELSE IF /\ Has(updates, "x") \/ Has(updates, "y")
            /\ CoordinatesThrow(Coalesce(updates, MapGet(comments, id), "x"),
                                Coalesce(updates, MapGet(comments, id), "y"))
         THEN "validation"
    ELSE "none"

\* an updateComment that writes the cache before the adapter answered
PendingCache_Optimistic(m, id, updated) == MapSet(m, id, updated)

\* the cache while adapter.update is pending: updated is computed before the
\* await and written only after it
PendingCache(m, id, updated) == m

\* updateComment(id, updates) up to await adapter.update(id, updates)
UpdateCall(id, updates) ==
    /\ CallsAllowed("update")
    /\ <<id, updates>> \in UpdateArgs(CallerUpdates, UnknownId)
    /\ IF UpdateError(id, updates) /= "none" THEN
           Throws("updateComment", [id |-> id, updates |-> updates],
                  UpdateError(id, updates))
       ELSE
           /\ opSeq < scenario.ops
           /\ opSeq' = opSeq + 1
           /\ adapterCalls' = Append(adapterCalls,
                                     [op |-> "update", id |-> id, updates |-> updates])
           /\ tasks' = tasks \cup
                 {[kind |-> "update", tid |-> opSeq + 1, id |-> id,
                   updates |-> updates,
                   updated |-> Spread(MapGet(comments, id), updates),
                   cancelled |-> FALSE,
                   settles |-> AdapterDoes(memoryUpdate(store, id, updates)).settles,
                   pre |-> Observable,
                   mid |-> [Observable EXCEPT !.adapterCalls = adapterCalls']]}
           /\ last' = [op |-> "updateComment",
                       input |-> [id |-> id, updates |-> updates],
                       outcome |-> "pending", error |-> "none"]
           /\ comments' = PendingCache(comments, id, Spread(MapGet(comments, id), updates))
           /\ store' = AdapterDoes(memoryUpdate(store, id, updates)).store
           /\ UNCHANGED <<iframe, options, overlay, overlayPins, pins,
                          mode, contentReady, activePinId, dialog, mountGeneration,
                          events, nextId, now, scenario, eventHandlers, subscriptions,
                          overlayDialogs, scroll, provider>>

\* position, color or resolved state changed
Redraws(updates) ==
    Has(updates, "x") \/ Has(updates, "y") \/ Has(updates, "color")
        \/ Has(updates, "resolved")

\* updateComment after the await: merge into the cache and redraw the pin
UpdateCommit(d, m, id, updates, updated, ifr, active) ==
    LET m2 == MapSet(m, id, updated)
        d2 == IF Redraws(updates)
              THEN renderPin(removePin(d, id), updated, m2, ifr, active)
              ELSE d
    IN  [comments |-> m2, pins |-> d2.pins, overlayPins |-> d2.overlayPins]

\* adapter.update resolved
UpdateResolve(t) ==
    /\ t \in tasks
    /\ t.kind = "update"
    /\ t.settles /= "rejected"
    /\ tasks' = tasks \ {t}
    /\ LET st == UpdateCommit([pins |-> pins, overlayPins |-> overlayPins], comments,
                              t.id, t.updates, t.updated, iframe, activePinId)
       IN  /\ comments' = st.comments
           /\ pins' = st.pins
           /\ overlayPins' = st.overlayPins
           /\ events' = Emitted(events, "comment:updated",
                                [id |-> t.id, updates |-> t.updates], st.comments)
    /\ last' = [op |-> "updateSettled", adapter |-> "resolved", task |-> t,
                outcome |-> AfterEmit("comment:updated"), error |-> "none",
                isolated |-> (Observable = t.mid)]
    /\ UNCHANGED <<iframe, options, overlay, mode, contentReady, activePinId,
                   dialog, mountGeneration, adapterCalls, nextId, now, opSeq, scenario, eventHandlers, subscriptions, overlayDialogs, scroll, store, provider>>

\* adapter.update rejected: the rejection propagates to the caller
UpdateReject(t) ==
    /\ t \in tasks
    /\ t.kind = "update"
    /\ t.settles /= "resolved"
    /\ tasks' = tasks \ {t}
    /\ last' = [op |-> "updateSettled", adapter |-> "rejected", task |-> t,
                outcome |-> "rejected", error |-> "adapter",
                isolated |-> (Observable = t.mid)]
    /\ UNCHANGED <<iframe, options, overlay, overlayPins, comments, pins, mode,
                   contentReady, activePinId, dialog, mountGeneration, events,
                   adapterCalls, nextId, now, opSeq, scenario, eventHandlers, subscriptions, overlayDialogs, scroll, store, provider>>

----------------------------------------------------------------------------
(* deleteComment *)

\* the guards of deleteComment without the lookup of the id
DeleteError_MountedOnly(id) ==
    IF iframe = NoFrame THEN "notMounted" ELSE "none"

\* the guards of deleteComment, in the order of the source
DeleteError(id) ==
    IF iframe = NoFrame THEN "notMounted"
    ELSE IF ~MapHas(comments, id) THEN "notFound"
    ELSE "none"

\* deleteComment(id) up to await adapter.delete(id)
DeleteCall(id) ==
    /\ CallsAllowed("delete")
    /\ id \in Keys(comments) \cup {UnknownId}
    /\ IF DeleteError(id) /= "none" THEN
           Throws("deleteComment", [id |-> id], DeleteError(id))
       ELSE
           /\ opSeq < scenario.ops
           /\ opSeq' = opSeq + 1
           /\ adapterCalls' = Append(adapterCalls, [op |-> "delete", id |-> id])
           /\ tasks' = tasks \cup
                 {[kind |-> "delete", tid |-> opSeq + 1, id |-> id,
                   cancelled |-> FALSE,
                   settles |-> AdapterDoes(memoryDelete(store, id)).settles,
                   pre |-> Observable,
                   mid |-> [Observable EXCEPT !.adapterCalls = adapterCalls']]}
           /\ last' = [op |-> "deleteComment", input |-> [id |-> id],
                       outcome |-> "pending", error |-> "none"]
           /\ store' = AdapterDoes(memoryDelete(store, id)).store
           /\ UNCHANGED <<iframe, options, overlay, overlayPins, comments, pins,
                          mode, contentReady, activePinId, dialog, mountGeneration,
                          events, nextId, now, scenario, eventHandlers, subscriptions,
                          overlayDialogs, scroll, provider>>

\* a deleteComment that removes the pin and redraws no other
DeleteCommit_NoRefresh(d, m, id, ifr, ovl, active, dlg) ==
    LET hide == active = id
        d1 == IF hide THEN setActivePin(d, active, NoId) ELSE d
        d2 == removePin(d1, id)
    IN  [comments |-> MapDelete(m, id), pins |-> d2.pins,
         overlayPins |-> d2.overlayPins,
         activePinId |-> IF hide THEN NoId ELSE active,
         dialog |-> IF hide THEN NoId ELSE dlg]

\* deleteComment after the await, up to the emit
DeleteCommit(d, m, id, ifr, ovl, active, dlg) ==
    LET m2 == MapDelete(m, id)
        hide == active = id
        \* hidePinDialog(): the popover goes and no pin stays active
        d1 == IF hide THEN setActivePin(d, active, NoId) ELSE d
        active2 == IF hide THEN NoId ELSE active
        d2 == refreshPinPositions(removePin(d1, id), m2, ifr, ovl, active2)
    IN  [comments |-> m2, pins |-> d2.pins, overlayPins |-> d2.overlayPins,
         activePinId |-> active2, dialog |-> IF hide THEN NoId ELSE dlg]

\* adapter.delete resolved
DeleteResolve(t) ==
    /\ t \in tasks
    /\ t.kind = "delete"
    /\ t.settles /= "rejected"
    /\ tasks' = tasks \ {t}
    /\ LET st == DeleteCommit([pins |-> pins, overlayPins |-> overlayPins], comments,
                              t.id, iframe, overlay, activePinId, dialog)
       IN  /\ comments' = st.comments
           /\ pins' = st.pins
           /\ overlayPins' = st.overlayPins
           /\ activePinId' = st.activePinId
           /\ dialog' = st.dialog
           /\ overlayDialogs' = IF st.dialog = dialog THEN overlayDialogs
                                 ELSE DetachDialog(overlayDialogs, dialog)
           /\ events' = Emitted(events, "comment:deleted", [id |-> t.id], st.comments)
    /\ last' = [op |-> "deleteSettled", adapter |-> "resolved", task |-> t,
                outcome |-> AfterEmit("comment:deleted"), error |-> "none",
                isolated |-> (Observable = t.mid)]
    /\ UNCHANGED <<iframe, options, overlay, mode, contentReady, mountGeneration,
                   adapterCalls, nextId, now, opSeq, scenario, eventHandlers,
                   subscriptions, scroll, store, provider>>

\* adapter.delete rejected: wrapped and thrown again
DeleteReject(t) ==
    /\ t \in tasks
    /\ t.kind = "delete"
    /\ t.settles /= "resolved"
    /\ tasks' = tasks \ {t}
    /\ last' = [op |-> "deleteSettled", adapter |-> "rejected", task |-> t,
                outcome |-> "rejected", error |-> "deleteFailed",
                isolated |-> (Observable = t.mid)]
    /\ UNCHANGED <<iframe, options, overlay, overlayPins, comments, pins, mode,
                   contentReady, activePinId, dialog, mountGeneration, events,
                   adapterCalls, nextId, now, opSeq, scenario, eventHandlers, subscriptions, overlayDialogs, scroll, store, provider>>

----------------------------------------------------------------------------
(* getComments and what a caller does with the array it returns *)

\* a getComments that hands out the cached objects themselves
getCommentsObjects_Cached(m) ==
    [i \in 1..Len(m) |-> [shared |-> m[i].k, value |-> m[i].v]]

\* Array.from(this.comments.values()).map((c) => ({ ...c })): a new array of
\* new objects.  shared names the cache entry an element is the same object
\* as; NoId when it is an object of its own.
getCommentsObjects(m) ==
    [i \in 1..Len(m) |-> [shared |-> NoId, value |-> Spread(m[i].v, << >>)]]

\* what callers do to the returned array and its elements
CallerChanges == {"pop", "reverse", "assign"}

\* the fields a caller assigns on the first element
CallerAssigns == [text |-> "changed", x |-> 99]

\* the cache after the caller's change: an assignment reaches the cache when
\* the element assigned to is a cached object
AfterCallerChange(m, returned, change) ==
    IF change = "assign" /\ returned /= << >> /\ returned[1].shared /= NoId
                         /\ MapHas(m, returned[1].shared)
    THEN MapSet(m, returned[1].shared,
                Spread(MapGet(m, returned[1].shared), CallerAssigns))
    ELSE m

\* getComments(), then the caller changes what it was given
GetComments(change) ==
    /\ scenario.reads
    /\ scenario.early \/ tasks = {}
    /\ change \in CallerChanges
    /\ comments /= << >>
    /\ LET returned == getCommentsObjects(comments)
       IN  /\ comments' = AfterCallerChange(comments, returned, change)
           /\ last' = [op |-> "getComments", outcome |-> "resolved",
                       change |-> change,
                       value |-> [i \in 1..Len(returned) |-> returned[i].value]]
    /\ UNCHANGED <<iframe, options, overlay, overlayPins, pins, mode, contentReady,
                   activePinId, dialog, mountGeneration, tasks, events, adapterCalls,
                   nextId, now, opSeq, scenario, eventHandlers, subscriptions, overlayDialogs, scroll, store, provider>>

----------------------------------------------------------------------------
(* setMode *)

\* the values callers pass to setMode; "edit" is no WashiMode
ModeInputs == {"view", "annotate", "edit"}

\* the guards of setMode without the readOnly test
SetModeError_IgnoresReadOnly(m) ==
    IF m /= "view" /\ m /= "annotate" THEN "invalid" ELSE "none"

\* the guards of setMode, in the order of the source
SetModeError(m) ==
    IF m /= "view" /\ m /= "annotate" THEN "invalid"
    ELSE IF options.readOnly /\ m = "annotate" THEN "readOnly"
    ELSE "none"

\* a payload built after this.mode was assigned
ModeChanged_ReadAfter(m, previousMode) == [mode |-> m, previousMode |-> m]

\* { mode, previousMode }
ModeChanged(m, previousMode) == [mode |-> m, previousMode |-> previousMode]

\* the mode:changed events emitted so far
ModeChanges == Cardinality({i \in 1..Len(events) : events[i].name = "mode:changed"})

\* setMode(m)
SetMode(m) ==
    /\ m \in ModeInputs
    /\ scenario.modes > 0
    /\ PageActs
    /\ IF SetModeError(m) /= "none" THEN
           Throws("setMode", m, SetModeError(m))
       ELSE
           /\ ModeChanges < scenario.modes
           /\ mode' = m
           /\ events' = Emitted(events, "mode:changed", ModeChanged(m, mode), comments)
           /\ overlay' = IF overlay.attached /\ ~EmitThrows("mode:changed")
                         THEN [overlay EXCEPT !.capture = (m = "annotate")]
                         ELSE overlay
           /\ last' = [op |-> "setMode", input |-> m,
                       outcome |-> AfterEmit("mode:changed"), error |-> "none",
                       \* the overlay as the handlers of mode:changed find
                       \* it: emit runs before the pointer-events assignment
                       handlersSaw |-> overlay]
           /\ UNCHANGED <<iframe, options, overlayPins, comments, pins, contentReady,
                          activePinId, dialog, mountGeneration, tasks, adapterCalls,
                          nextId, now, opSeq, scenario, eventHandlers, subscriptions, overlayDialogs, scroll, store, provider>>

----------------------------------------------------------------------------
(* on and the unsubscribe function it returns *)

\* the events callers subscribe to and the handlers they pass
SubscribedEvents == {"comment:created", "comment:deleted"}
Handlers == {1, 2}

\* on(event, handler): the handler joins the Set of the event; the call
\* returns an unsubscribe function, which the caller holds
On(event, handler) ==
    /\ scenario.subscribes
    /\ scenario.early \/ tasks = {}
    /\ event \in SubscribedEvents
    /\ handler \in Handlers
    /\ BagCardinality(subscriptions) < MaxHandlers
    /\ LET reg == [event |-> event, handler |-> handler]
       IN  /\ eventHandlers' = SetAdd(eventHandlers, reg)
           /\ subscriptions' = subscriptions (+) SetToBag({reg})
    /\ last' = [op |-> "on", input |-> [event |-> event, handler |-> handler],
                outcome |-> "resolved"]
    /\ UNCHANGED <<iframe, options, overlay, overlayPins, comments, pins, mode,
                   contentReady, activePinId, dialog, mountGeneration, tasks,
                   events, adapterCalls, nextId, now, opSeq, scenario,
                   overlayDialogs, scroll, store, provider>>

\* the first call of a function on() returned: handlers.delete(handler)
Unsubscribe(event, handler) ==
    /\ scenario.subscribes
    /\ scenario.early \/ tasks = {}
    /\ BagIn([event |-> event, handler |-> handler], subscriptions)
    /\ LET reg == [event |-> event, handler |-> handler]
       IN  /\ eventHandlers' = SetDelete(eventHandlers, reg)
           /\ subscriptions' = subscriptions (-) SetToBag({reg})
    /\ last' = [op |-> "unsubscribe", input |-> [event |-> event, handler |-> handler],
                outcome |-> "resolved"]
    /\ UNCHANGED <<iframe, options, overlay, overlayPins, comments, pins, mode,
                   contentReady, activePinId, dialog, mountGeneration, tasks,
                   events, adapterCalls, nextId, now, opSeq, scenario,
                   overlayDialogs, scroll, store, provider>>

----------------------------------------------------------------------------
(* the popover and the active pin *)

\* setActivePin(commentId), null being NoId
SetActivePin(commentId) ==
    /\ scenario.ui
    /\ commentId \in Keys(comments) \cup {NoId}
    /\ commentId /= activePinId
    /\ LET d == setActivePin([pins |-> pins, overlayPins |-> overlayPins],
                             activePinId, commentId)
       IN  /\ pins' = d.pins
           /\ overlayPins' = d.overlayPins
    /\ activePinId' = commentId
    /\ last' = [op |-> "setActivePin", input |-> commentId, outcome |-> "resolved"]
    /\ UNCHANGED <<iframe, options, overlay, comments, mode, contentReady, dialog,
                   mountGeneration, tasks, events, adapterCalls, nextId, now, opSeq,
                   scenario, eventHandlers, subscriptions, overlayDialogs, scroll, store, provider>>

\* showPinDialog(commentId): nothing without the comment or the overlay;
\* otherwise the open popover is closed, the pin becomes the active one and,
\* when the pin exists, a popover for it is appended to the overlay
showPinDialog(d, dlgs, m, ovl, active, dlg, commentId) ==
    IF ~MapHas(m, commentId) \/ ~ovl.attached THEN
        [pins |-> d.pins, overlayPins |-> d.overlayPins, activePinId |-> active,
         dialog |-> dlg, overlayDialogs |-> dlgs]
    ELSE
        LET d1 == setActivePin(setActivePin(d, active, NoId), NoId, commentId)
            closed == DetachDialog(dlgs, dlg)
            shown == MapHas(d.pins, commentId)
        IN  [pins |-> d1.pins, overlayPins |-> d1.overlayPins,
             activePinId |-> commentId,
             dialog |-> IF shown THEN commentId ELSE NoId,
             overlayDialogs |-> IF shown THEN closed (+) SetToBag({commentId})
                                ELSE closed]

\* a call of showPinDialog(commentId)
ShowPinDialog(commentId) ==
    /\ scenario.ui
    /\ commentId \in Keys(comments)
    /\ overlay.attached
    /\ dialog /= commentId
    /\ LET st == showPinDialog([pins |-> pins, overlayPins |-> overlayPins],
                               overlayDialogs, comments, overlay, activePinId,
                               dialog, commentId)
       IN  /\ pins' = st.pins
           /\ overlayPins' = st.overlayPins
           /\ activePinId' = st.activePinId
           /\ dialog' = st.dialog
           /\ overlayDialogs' = st.overlayDialogs
    /\ last' = [op |-> "showPinDialog", input |-> commentId, outcome |-> "resolved"]
    /\ UNCHANGED <<iframe, options, overlay, comments, mode, contentReady,
                   mountGeneration, tasks, events, adapterCalls, nextId, now, opSeq,
                   scenario, eventHandlers, subscriptions, scroll, store, provider>>

\* hidePinDialog(): the popover goes and no pin stays active
HidePinDialog ==
    /\ scenario.ui
    /\ dialog /= NoId \/ activePinId /= NoId
    /\ LET d == setActivePin([pins |-> pins, overlayPins |-> overlayPins],
                             activePinId, NoId)
       IN  /\ pins' = d.pins
           /\ overlayPins' = d.overlayPins
    /\ dialog' = NoId
    /\ activePinId' = NoId
    /\ overlayDialogs' = DetachDialog(overlayDialogs, dialog)
    /\ last' = [op |-> "hidePinDialog", outcome |-> "resolved"]
    /\ UNCHANGED <<iframe, options, overlay, comments, mode, contentReady,
                   mountGeneration, tasks, events, adapterCalls, nextId, now, opSeq,
                   scenario, eventHandlers, subscriptions, scroll, store, provider>>

\* a click on a pin of the overlay: the listener renderPin attached opens the
\* popover unless disableBuiltinDialog is set, then emits comment:clicked
\* with the comment renderPin was called with
PinClick(node) ==
    /\ scenario.ui \/ scenario.holds
    /\ scenario.clicks > 0
    /\ BagIn(node, overlayPins)
    /\ Cardinality({i \in 1..Len(events) : events[i].name = "comment:clicked"})
           < scenario.clicks
    /\ LET d0 == [pins |-> pins, overlayPins |-> overlayPins]
           keep == [pins |-> pins, overlayPins |-> overlayPins,
                    activePinId |-> activePinId, dialog |-> dialog,
                    overlayDialogs |-> overlayDialogs]
           st == IF options.disableBuiltinDialog THEN keep
                 ELSE showPinDialog(d0, overlayDialogs, comments, overlay,
                                    activePinId, dialog, node.comment.id)
       IN  /\ pins' = st.pins
           /\ overlayPins' = st.overlayPins
           /\ activePinId' = st.activePinId
           /\ dialog' = st.dialog
           /\ overlayDialogs' = st.overlayDialogs
           /\ events' = Emitted(events, "comment:clicked", [comment |-> node.comment],
                                comments)
    /\ last' = [op |-> "pinClick", input |-> node.comment.id,
                outcome |-> "resolved"]
    /\ UNCHANGED <<iframe, options, overlay, comments, mode, contentReady,
                   mountGeneration, tasks, adapterCalls, nextId, now, opSeq,
                   scenario, eventHandlers, subscriptions, scroll, store, provider>>

----------------------------------------------------------------------------
(* Clicks on the overlay and scrolling of the target *)

\* a / b of JavaScript on the numbers used here: the quotient, an infinity
\* when only the divisor is zero, NaN for 0 / 0
Divide(a, b) ==
    IF b /= 0 THEN a \div b
    ELSE IF a = 0 THEN NaN
    ELSE IF a > 0 THEN PosInfinity ELSE NegInfinity

\* v * 100: NaN and the infinities stay what they are
Times100(v) == IF v \in {NaN, PosInfinity, NegInfinity} THEN v ELSE v * 100

\* Math.max and Math.min: NaN whenever an operand is NaN
MathMax(a, b) == IF a = NaN \/ b = NaN THEN NaN ELSE IF a > b THEN a ELSE b
MathMin(a, b) == IF a = NaN \/ b = NaN THEN NaN ELSE IF a < b THEN a ELSE b

\* Math.min(100, Math.max(0, (click / content) * 100)); the operands are
\* scaled so that the integer quotient is exact for the values used
Percent(click, content) ==
    IF content = 0 THEN MathMin(100, MathMax(0, Times100(Divide(click, content))))
    ELSE MathMin(100, MathMax(0, (click * 100) \div content))

\* the positions of a click, relative to the overlay's top left corner
Clicks == {[x |-> 0, y |-> 0], [x |-> 4, y |-> 3], [x |-> 20, y |-> -3]}

\* the pin:placed events emitted so far
PinsPlaced == Cardinality({i \in 1..Len(events) : events[i].name = "pin:placed"})

\* a click event on the overlay: handleOverlayClick.  size is the content
\* size it reads: scrollWidth and scrollHeight of the document or, when they
\* are 0 or unreadable, the width and height of the overlay.
OverlayClick(click, size) ==
    /\ scenario.clicks > 0
    /\ ~scenario.ui /\ ~scenario.holds
    /\ PageActs
    /\ overlay.attached
    /\ click \in Clicks
    /\ size \in ContentSizes
    /\ IF mode /= "annotate" \/ iframe = NoFrame THEN
           /\ last' = [op |-> "overlayClick", input |-> click, outcome |-> "ignored"]
           /\ UNCHANGED events
       ELSE
           /\ PinsPlaced < scenario.clicks
           /\ events' = Emitted(events, "pin:placed",
                                [x |-> Percent(click.x, size[1]),
                                 y |-> Percent(click.y, size[2])], comments)
           /\ last' = [op |-> "overlayClick", input |-> click, outcome |-> "resolved"]
    /\ UNCHANGED <<iframe, options, overlay, overlayPins, comments, pins, mode,
                   contentReady, activePinId, dialog, mountGeneration, tasks,
                   adapterCalls, nextId, now, opSeq, scenario, eventHandlers,
                   subscriptions, overlayDialogs, scroll, store, provider>>

\* the target's scroll offsets and the milliseconds between two scroll events
ScrollOffsets == {0, 30}
ScrollGaps == {5, ThrottleDelay}

\* the throttled handleScroll: it runs when at least the delay passed since
\* the last run, and then moves the overlay; otherwise the event is dropped
syncScroll(sc) ==
    IF sc.clock - sc.lastCall >= ThrottleDelay
    THEN [sc EXCEPT !.lastCall = sc.clock, !.shift = 0 - sc.offset]
    ELSE sc

\* the target scrolls to offset, gap milliseconds after its previous scroll
\* event; the listener exists while an iframe with a window is mounted
ScrollEvent(offset, gap) ==
    /\ scroll.count < scenario.scrolls
    /\ offset \in ScrollOffsets
    /\ offset /= scroll.offset
    /\ gap \in ScrollGaps
    /\ LET moved == [scroll EXCEPT !.offset = offset, !.clock = scroll.clock + gap,
                                   !.count = scroll.count + 1]
       IN  scroll' = IF iframe /= NoFrame /\ InDocument(iframe) /\ overlay.attached
                     THEN syncScroll(moved) ELSE moved
    /\ last' = [op |-> "scroll", input |-> offset, outcome |-> "resolved"]
    /\ UNCHANGED <<iframe, options, overlay, overlayPins, comments, pins, mode,
                   contentReady, activePinId, dialog, mountGeneration, tasks, events,
                   adapterCalls, nextId, now, opSeq, scenario, eventHandlers,
                   subscriptions, overlayDialogs, store, provider>>

----------------------------------------------------------------------------
(* Callers that assign to the comment objects they were handed *)

\* where a caller got a comment object from: the value addComment resolved
\* with, the payload of comment:created, the payload of comment:clicked
HandedBy == {"returned", "created", "clicked"}

\* the comment object the step just taken handed to the caller: addComment
\* returns, and emits, the object it stored in the cache; the pin's listener
\* emits the object renderPin was called with
Handed(source) ==
    IF source = "returned" THEN last.value
    ELSE IF source = "created" THEN events[Len(events)].payload
    ELSE events[Len(events)].payload.comment

\* the object is the cache entry of its id.  (An entry becomes another
\* object only through updateComment, which stores a changed comment.)
SameObject(m, comment) == MapHas(m, comment.id) /\ MapGet(m, comment.id) = comment

\* a pin whose listener holds the object sees the assignment too
Reassigned(node, old, new) ==
    IF node.comment = old THEN [node EXCEPT !.comment = new] ELSE node

\* the caller assigns CallerAssigns to the fields of the object it was handed
CallerAssign(source) ==
    /\ scenario.holds
    /\ source \in HandedBy
    /\ IF source = "clicked" THEN last.op = "pinClick"
       ELSE last.op = "addSettled" /\ last.outcome = "resolved"
    /\ LET old == Handed(source)
           new == Spread(old, CallerAssigns)
           handed == [shared |-> IF SameObject(comments, old) THEN old.id ELSE NoId,
                      value |-> old]
           R(node) == Reassigned(node, old, new)
       IN  /\ comments' = AfterCallerChange(comments, <<handed>>, "assign")
           /\ pins' = [i \in 1..Len(pins) |-> [k |-> pins[i].k, v |-> R(pins[i].v)]]
           /\ overlayPins' = BagOfAll(R, overlayPins)
           /\ last' = [op |-> "callerAssign", source |-> source,
                       outcome |-> "resolved", handed |-> old,
                       before |-> getComments]
    /\ UNCHANGED <<iframe, options, overlay, mode, contentReady, activePinId, dialog,
                   mountGeneration, tasks, events, adapterCalls, nextId, now, opSeq,
                   scenario, eventHandlers, subscriptions, overlayDialogs, scroll, store, provider>>

----------------------------------------------------------------------------
(* WashiProvider: registerIframe and the handleLoad it starts *)

\* handleLoad up to await washi.mount(iframe, mountOptions), called with the
\* provider as p and this.eventHandlers as handlers; when mount throws, the
\* catch block runs setIsReady(false)
handleLoad(el, opts, p, handlers, op) ==
    /\ eventHandlers' = handlers
    /\ IF MountError(el) /= "none" THEN
           /\ provider' = [p EXCEPT !.isReady = FALSE]
           /\ last' = [op |-> op, input |-> el, outcome |-> "rejected",
                       error |-> MountError(el)]
           /\ UNCHANGED engine
       ELSE
           /\ mountGeneration < scenario.generations
           /\ mount(el, opts)
           /\ provider' = [p EXCEPT !.loads = @ \cup
                                {[tid |-> mountGeneration + 1, iframe |-> el,
                                  cancelled |-> FALSE]}]
           /\ last' = [op |-> op, input |-> el, outcome |-> "pending",
                       error |-> "none"]

\* registerIframe(iframe): the 'load' listener and the subscriptions of the
\* previous registration go; with null the engine is unmounted; with an
\* iframe whose document is complete (ready) handleLoad is called, otherwise
\* it becomes the iframe's 'load' listener
RegisterIframe(el, ready, opts) ==
    /\ IsReact
    /\ el \in scenario.targets \cup {NoFrame}
    /\ ready => (el /= NoFrame /\ HasContentDocument(el))
    /\ LET handlers == CleanupEach(eventHandlers, provider.cleanups)
           p == [provider EXCEPT !.listener = NoFrame, !.cleanups = << >>,
                                 !.iframeRef = el]
       IN  IF el = NoFrame THEN
               /\ mountGeneration < scenario.generations
               /\ unmount
               /\ eventHandlers' = handlers
               /\ provider' = [p EXCEPT !.isReady = FALSE,
                                        !.loads = {[h EXCEPT !.cancelled = TRUE] :
                                                      h \in @}]
               /\ last' = [op |-> "registerIframe", input |-> el,
                           outcome |-> "resolved", error |-> "none"]
           ELSE IF ready THEN
               handleLoad(el, opts, p, handlers, "registerIframe")
           ELSE
               /\ eventHandlers' = handlers
               /\ provider' = [p EXCEPT !.listener = el]
               /\ last' = [op |-> "registerIframe", input |-> el,
                           outcome |-> "listening", error |-> "none"]
               /\ UNCHANGED engine

\* a 'load' event of the iframe that carries the listener: handleLoad
IframeLoad(opts) ==
    /\ IsReact
    /\ provider.listener /= NoFrame
    /\ handleLoad(provider.listener, opts, provider, eventHandlers, "iframeLoad")

----------------------------------------------------------------------------
(* The engine with its callers and its adapter *)

\* the MountOptions callers pass
MountOptionsSet ==
    {[readOnly |-> r, disableBuiltinDialog |-> FALSE] : r \in scenario.readOnly}

Next ==
    \/ \E target \in scenario.targets, opts \in MountOptionsSet : MountCall(target, opts)
    \/ \E t \in tasks, size \in Sizes : MountFrame(t, size)
    \/ \E t \in tasks, size \in Sizes : MountWaitEnd(t, size)
    \/ \E t \in tasks : MountResume(t)
    \/ \E t \in tasks : \E list \in LoadOutcomes(t) : MountLoadResolve(t, list)
    \/ \E t \in tasks : MountLoadReject(t)
    \/ Unmount
    \/ \E input \in AddInputs, t \in now..(now + 1) : AddCall(input, t)
    \/ \E t \in tasks : AddResolve(t)
    \/ \E t \in tasks : AddReject(t)
    \/ \E a \in UpdateArgs(CallerUpdates, UnknownId) : UpdateCall(a[1], a[2])
    \/ \E t \in tasks : UpdateResolve(t)
    \/ \E t \in tasks : UpdateReject(t)
    \/ \E id \in Keys(comments) \cup {UnknownId} : DeleteCall(id)
    \/ \E t \in tasks : DeleteResolve(t)
    \/ \E t \in tasks : DeleteReject(t)
    \/ \E change \in CallerChanges : GetComments(change)
    \/ \E m \in ModeInputs : SetMode(m)
    \/ \E node \in BagToSet(overlayPins) : PinClick(node)
    \/ \E source \in HandedBy : CallerAssign(source)
    \/ \E click \in Clicks, size \in Sizes : OverlayClick(click, size)
    \/ \E offset \in ScrollOffsets, gap \in ScrollGaps : ScrollEvent(offset, gap)
    \/ \E event \in SubscribedEvents, handler \in Handlers : On(event, handler)
    \/ \E event \in SubscribedEvents, handler \in Handlers : Unsubscribe(event, handler)
    \/ \E commentId \in Keys(comments) \cup {NoId} : SetActivePin(commentId)
    \/ \E commentId \in Keys(comments) : ShowPinDialog(commentId)
    \/ HidePinDialog
    \/ \E el \in Targets \cup {NoFrame}, ready \in BOOLEAN, opts \in MountOptionsSet :
           RegisterIframe(el, ready, opts)
    \/ \E opts \in MountOptionsSet : IframeLoad(opts)

Spec == Init /\ [][Next]_vars

\* Mounting alone: mount() and unmount() calls on targets whose content takes
\* animation frames, the browser running every requested animation frame and
\* adapter.load() settling.
InitFrames == Init /\ scenario.name = "frames"

NextMount ==
    \/ \E target \in scenario.targets, opts \in MountOptionsSet : MountCall(target, opts)
    \/ \E t \in tasks, size \in Sizes : MountFrame(t, size)
    \/ \E t \in tasks, size \in Sizes : MountWaitEnd(t, size)
    \/ \E t \in tasks : MountResume(t)
    \/ \E t \in tasks : \E list \in LoadOutcomes(t) : MountLoadResolve(t, list)
    \/ \E t \in tasks : MountLoadReject(t)
    \/ Unmount

\* the next step of the mount() call number g: an animation frame callback,
\* the continuation after the wait, or the settling of adapter.load()
MountStep(g) ==
    \E t \in tasks :
        /\ t.tid = g
        /\ \/ \E size \in Sizes : MountFrame(t, size)
           \/ \E size \in Sizes : MountWaitEnd(t, size)
           \/ MountResume(t)
           \/ \E list \in LoadOutcomes(t) : MountLoadResolve(t, list)
           \/ MountLoadReject(t)

LiveSpec ==
    /\ InitFrames
    /\ [][NextMount]_vars
    /\ \A g \in 1..MaxFrameGeneration : WF_vars(MountStep(g))

----------------------------------------------------------------------------
(* Properties *)

\* the part of the state a continuation of mount must not touch once stale
Drawn == <<comments, pins, overlayPins>>

\* C1: a mount continuation that resumes after unmount() ran inserts no
\* comment into the cache and draws no pin, also when mount() was called
\* again in between.
C1_StaleMountInert ==
    [][(last'.op \in {"mountContinue", "mountLoaded"} /\ last'.task.cancelled)
         => UNCHANGED Drawn]_vars

\* a load that answered a cancelled mount with comments, after a new mount
C1_Witness ==
    /\ last.op = "mountLoaded"
    /\ last.task.cancelled
    /\ last.adapter = "resolved"
    /\ last.list /= << >>
    /\ iframe /= NoFrame

\* C2: when adapter.save rejects, addComment rejects, emits nothing, and the
\* cache and the pins are what they were before the call (no other
\* operation having run between the call and the rejection).
C2_SaveRejectedRollsBack ==
    [][(last'.op = "addSettled" /\ last'.adapter = "rejected")
         => /\ last'.outcome = "rejected"
            /\ events' = events
            /\ last'.isolated =>
                  /\ comments' = last'.task.pre.comments
                  /\ pins' = last'.task.pre.pins
                  /\ overlayPins' = last'.task.pre.overlayPins
                  /\ events' = last'.task.pre.events]_vars

\* a rejected save rolled back on a cache that already held comments
C2_Witness ==
    /\ last.op = "addSettled"
    /\ last.adapter = "rejected"
    /\ last.isolated
    /\ last.task.pre.comments /= << >>

\* a coordinate inside the closed interval [0, 100]
InRange(v) == v /= NaN /\ 0 <= v /\ v <= 100

ValidInput(input) == input.text /= "" /\ InRange(input.x) /\ InRange(input.y)

\* C3: a valid addComment whose save succeeds returns the caller's x, y and
\* text with a fresh id and a positive createdAt; the cache holds exactly one
\* more comment, save was called once with it and comment:created was
\* emitted once with it.
C3_AddSucceeds ==
    [][(/\ last'.op = "addSettled"
        /\ last'.adapter = "resolved"
        /\ last'.isolated
        /\ ValidInput(last'.task.input))
         => LET pre == last'.task.pre
                c == last'.value
            IN  /\ last'.outcome = "resolved"
                /\ c.x = last'.task.input.x
                /\ c.y = last'.task.input.y
                /\ c.text = last'.task.input.text
                /\ c.id /= NoId
                /\ \A i \in 1..Len(pre.comments) :
                      pre.comments[i].k /= c.id /\ pre.comments[i].v.id /= c.id
                /\ c.createdAt > 0
                /\ Values(comments') = Append(Values(pre.comments), c)
                /\ adapterCalls' = Append(pre.adapterCalls,
                                          [op |-> "save", comment |-> c])
                /\ Len(events') = Len(pre.events) + 1
                /\ SubSeq(events', 1, Len(pre.events)) = pre.events
                /\ events'[Len(events')].name = "comment:created"
                /\ events'[Len(events')].payload = c]_vars

\* a boundary position added next to loaded comments
C3_Witness ==
    /\ last.op = "addSettled"
    /\ last.adapter = "resolved"
    /\ last.isolated
    /\ last.task.input.x = 0
    /\ last.task.input.y = 100
    /\ Len(comments) = 3

\* a coordinate passed to addComment or updateComment lies outside [0, 100]
BadAddInput(input) == ~(InRange(input.x) /\ InRange(input.y))

BadUpdates(updates) ==
    \/ Has(updates, "x") /\ ~InRange(updates.x)
    \/ Has(updates, "y") /\ ~InRange(updates.y)

\* what a rejected call must leave alone
Untouched == <<comments, pins, overlayPins, events, adapterCalls>>

\* C4: addComment with x or y outside [0, 100] (engine mounted, text given),
\* and updateComment of a cached comment whose updates carry such an x or y,
\* reject with a validation error, call no adapter, emit nothing and leave
\* the cache and the pins unchanged.
C4_OutOfRangeRejected ==
    [][(\/ /\ last'.op = "addComment"
           /\ iframe /= NoFrame
           /\ last'.input.text /= ""
           /\ BadAddInput(last'.input)
        \/ /\ last'.op = "updateComment"
           /\ MapHas(comments, last'.input.id)
           /\ BadUpdates(last'.input.updates))
         => /\ last'.outcome = "rejected"
            /\ last'.error = "validation"
            /\ UNCHANGED Untouched]_vars

\* C5: every comment in the cache has 0 <= x <= 100 and 0 <= y <= 100.
C5_CachedCoordinatesInRange ==
    \A i \in 1..Len(comments) :
        InRange(comments[i].v.x) /\ InRange(comments[i].v.y)

\* the cache a handler reads when the event is emitted reflects the event
Reflected(e) ==
    /\ e.name = "comment:created" =>
          \E j \in 1..Len(e.seen) : e.seen[j] = e.payload
    /\ e.name = "comment:updated" =>
          \E j \in 1..Len(e.seen) :
              /\ e.seen[j].id = e.payload.id
              /\ \A f \in DOMAIN e.payload.updates :
                    Has(e.seen[j], f) /\ e.seen[j][f] = e.payload.updates[f]
    /\ e.name = "comment:deleted" =>
          \A j \in 1..Len(e.seen) : e.seen[j].id /= e.payload.id

\* C6: whenever a comment:created, comment:updated or comment:deleted
\* handler runs, the cache already reflects that mutation.
C6_EventsReflectCache == \A i \in 1..Len(events) : Reflected(events[i])

\* C7: the settlement of an adapter call of addComment, updateComment or
\* deleteComment that unmount() overtook changes neither the cache nor the
\* pins and emits no event.
C7_SettlementAfterUnmountInert ==
    [][(/\ last'.op \in {"addSettled", "updateSettled", "deleteSettled"}
        /\ last'.task.cancelled)
         => UNCHANGED <<comments, pins, overlayPins, events>>]_vars

\* C8: addComment and deleteComment on an engine that is not mounted reject
\* with a not-mounted error, call no adapter, and change neither the cache
\* nor the events.
C8_NotMountedRejected ==
    [][(last'.op \in {"addComment", "deleteComment"} /\ iframe = NoFrame)
         => /\ last'.outcome = "rejected"
            /\ last'.error = "notMounted"
            /\ UNCHANGED Untouched
            /\ UNCHANGED tasks]_vars

\* a valid addComment refused after an unmount()
C8_Witness ==
    /\ last.op = "addComment"
    /\ ValidInput(last.input)
    /\ last.error = "notMounted"
    /\ iframe = NoFrame
    /\ mountGeneration >= 2

\* a mount() has been called and has not completed
MountPending == \E t \in MountTasks : ~t.cancelled

\* C9: addComment and deleteComment invoked while mount() has not completed
\* (with arguments that are acceptable otherwise: a valid input, a cached id)
\* fail with a not-mounted error.
C9_RejectedWhileMounting ==
    [][(/\ MountPending
        /\ \/ last'.op = "addComment" /\ ValidInput(last'.input)
           \/ last'.op = "deleteComment" /\ MapHas(comments, last'.input.id))
         => last'.outcome = "rejected" /\ last'.error = "notMounted"]_vars

\* everything but the record of the step
EngineState ==
    <<iframe, options, overlay, overlayPins, comments, pins, mode, contentReady,
      activePinId, dialog, mountGeneration, tasks, events, adapterCalls>>

\* C10: mount() fails when a mount is active (completed or not) or the
\* target has no parent in a document, and a failed mount() changes nothing:
\* the current mount with its pending continuation, cache, pins and overlay
\* stay, no load is issued, and an unmounted engine stays unmounted.
C10_FailedMountChangesNothing ==
    [][(last'.op = "mount" /\ (iframe /= NoFrame \/ ~InDocument(last'.target)))
         => /\ last'.outcome = "rejected"
            /\ UNCHANGED EngineState]_vars

\* the step emitted exactly one event, with this name
EmitsOne(name) ==
    /\ Len(events') = Len(events) + 1
    /\ SubSeq(events', 1, Len(events)) = events
    /\ events'[Len(events')].name = name

\* C11: when adapter.load rejects and no unmount() intervened, mount()
\* completes, exactly one error event of type load is emitted, the cache is
\* left as it was (empty, when no comment operation was issued), and the
\* engine is mounted: addComment accepts every valid input.
C11_LoadFailureKeepsMount ==
    [][(/\ last'.op = "mountLoaded"
        /\ last'.adapter = "rejected"
        /\ ~last'.task.cancelled)
         => /\ last'.outcome = "resolved"
            /\ EmitsOne("error")
            /\ events'[Len(events')].payload.type = "load"
            /\ UNCHANGED Drawn
            /\ opSeq = 0 => comments' = << >>
            /\ iframe' /= NoFrame
            /\ \A input \in AddInputs :
                  ValidInput(input) => AddError(input)' = "none"]_vars

\* a load that failed for the second mount of an engine
C11_Witness ==
    /\ last.op = "mountLoaded"
    /\ last.adapter = "rejected"
    /\ ~last.task.cancelled
    /\ mountGeneration >= 3
    /\ iframe /= NoFrame
    /\ comments = << >>

\* the list holds no two comments with one id
DistinctIds(list) ==
    \A i, j \in 1..Len(list) : list[i].id = list[j].id => i = j

Surface ==
    <<iframe, overlay, overlayPins, comments, pins, dialog, activePinId, mode,
      contentReady, eventHandlers, events, adapterCalls>>

\* C13: unmount() called a second time in a row, or on an engine that was
\* never mounted, raises no error and leaves the cache, the pins, the
\* overlay, the popover, the mode, the subscriptions and the mounted flag as
\* they were.
C13_UnmountIdempotent ==
    [][(last'.op = "unmount" /\ (last.op = "unmount" \/ mountGeneration = 0))
         => /\ last'.outcome = "resolved"
            /\ UNCHANGED Surface]_vars

\* a second unmount() in a row after a mount, in annotate mode
C13_Witness ==
    /\ last.op = "unmount"
    /\ last.repeated
    /\ mountGeneration >= 3
    /\ mode = "annotate"

\* C14: after unmount() returns the cache is empty, no pin, popover or active
\* pin remains, isReady() is false, a new mount() is accepted, and the options
\* of the previous mount no longer restrict setMode.
C14_UnmountLeavesNothing ==
    [][last'.op = "unmount"
         => /\ comments' = << >>
            /\ pins' = << >>
            /\ overlayPins' = EmptyBag
            /\ dialog' = NoId
            /\ activePinId' = NoId
            /\ ~isReady'
            /\ MountError("opaque")' = "none"
            /\ SetModeError("annotate")' = "none"]_vars

\* C15: getComments() returns the cached comments as a new array of copies:
\* whatever the caller does to the array or to its elements changes neither
\* the cache nor the pins, and nothing that was emitted or sent to the adapter.
C15_GetCommentsIsolated ==
    [][last'.op = "getComments"
         => /\ last'.value = Values(comments)
            /\ UNCHANGED <<comments, pins, overlayPins, events, adapterCalls>>
            /\ getComments' = last'.value]_vars

\* the caller assigned fields of a comment it got from a cache of three
C15_Witness ==
    /\ last.op = "getComments"
    /\ last.change = "assign"
    /\ Len(last.value) = 3
    /\ getComments = last.value

\* C16: updateComment and deleteComment leave the cache, the pins and the
\* events alone up to their adapter call, and when that call rejects the
\* operation rejects, emits nothing and leaves the cache and the pins as they
\* were before the call.
C16_NothingCommittedBeforeAdapter ==
    [][/\ (last'.op \in {"updateComment", "deleteComment"} /\ last'.outcome = "pending")
          => UNCHANGED <<comments, pins, overlayPins, events>>
       /\ (last'.op \in {"updateSettled", "deleteSettled"} /\ last'.adapter = "rejected")
          => /\ last'.outcome = "rejected"
             /\ UNCHANGED <<comments, pins, overlayPins, events>>
             /\ last'.isolated =>
                   /\ comments' = last'.task.pre.comments
                   /\ pins' = last'.task.pre.pins
                   /\ overlayPins' = last'.task.pre.overlayPins
                   /\ events' = last'.task.pre.events]_vars

\* a rejected update of one of two cached comments
C16_Witness ==
    /\ last.op = "updateSettled"
    /\ last.adapter = "rejected"
    /\ last.isolated
    /\ Len(comments) = 2
    /\ Has(last.task.updates, "x")

\* C17: updateComment and deleteComment on a mounted engine with an id that is
\* not in the cache reject with a not-found error, call no adapter, emit
\* nothing and leave the cache and the pins unchanged.
C17_UnknownIdRejected ==
    [][(/\ last'.op \in {"updateComment", "deleteComment"}
        /\ iframe /= NoFrame
        /\ ~MapHas(comments, last'.input.id))
         => /\ last'.outcome = "rejected"
            /\ last'.error = "notFound"
            /\ UNCHANGED Untouched
            /\ UNCHANGED tasks]_vars

\* a deleteComment of an unknown id refused while other comments are cached
C17_Witness ==
    /\ last.op = "deleteComment"
    /\ last.error = "notFound"
    /\ iframe /= NoFrame
    /\ Len(comments) = 2

\* label is a 1-based rank of comment id by ascending createdAt in cache m
\* (comments created at the same time may take either order)
IsRank(m, id, label) ==
    LET mine == MapGet(m, id).createdAt
        before == {i \in 1..Len(m) : m[i].v.createdAt < mine}
        upTo == {i \in 1..Len(m) : m[i].v.createdAt <= mine}
    IN  Cardinality(before) + 1 <= label /\ label <= Cardinality(upTo)

\* every unresolved pin is attached, carries its rank, and no two share one
PinsRanked(m, p, nodes) ==
    /\ \A i \in 1..Len(p) :
          (MapHas(m, p[i].k) /\ ~p[i].v.resolved)
             => /\ IsRank(m, p[i].k, p[i].v.label)
                /\ p[i].v.index = p[i].v.label - 1
                /\ BagIn(p[i].v, nodes)
    /\ \A i, j \in 1..Len(p) :
          (i /= j /\ ~p[i].v.resolved /\ ~p[j].v.resolved)
             => p[i].v.label /= p[j].v.label

\* C18: after a successful deleteComment(id) the id is absent from the cache,
\* its pin is gone, comment:deleted {id} was emitted exactly once, and every
\* remaining unresolved pin shows its 1-based rank by createdAt among the
\* remaining comments.
C18_DeleteReranks ==
    [][(last'.op = "deleteSettled" /\ last'.adapter = "resolved")
         => LET id == last'.task.id
            IN  /\ last'.outcome = "resolved"
                /\ ~MapHas(comments', id)
                /\ ~MapHas(pins', id)
                /\ \A node \in BagToSet(overlayPins') : node.id /= id
                /\ EmitsOne("comment:deleted")
                /\ events'[Len(events')].payload = [id |-> id]
                /\ PinsRanked(comments', pins', overlayPins')
                /\ BagCardinality(overlayPins') = Len(pins')]_vars

\* the middle one of three comments was deleted
C18_Witness ==
    /\ last.op = "deleteSettled"
    /\ last.adapter = "resolved"
    /\ last.isolated
    /\ Len(last.task.pre.comments) = 3
    /\ getCommentIndex(last.task.pre.comments, last.task.id) = 1
    /\ Len(pins) = 2

\* C19: setMode with a value other than view or annotate, and
\* setMode('annotate') on an engine mounted with readOnly, fail and leave the
\* mode, the overlay's click capture and the events as they were;
\* setMode('view') is accepted under readOnly.
C19_RejectedSetModeInert ==
    [][/\ (/\ last'.op = "setMode"
           /\ \/ last'.input \notin {"view", "annotate"}
              \/ iframe /= NoFrame /\ options.readOnly /\ last'.input = "annotate")
          => /\ last'.outcome = "rejected"
             /\ UNCHANGED <<mode, overlay, events>>
       /\ (last'.op = "setMode" /\ last'.input = "view")
          => last'.outcome = "resolved" /\ mode' = "view"]_vars

\* setMode('annotate') refused by a read-only mount
C19_Witness ==
    /\ last.op = "setMode"
    /\ last.input = "annotate"
    /\ last.error = "readOnly"
    /\ iframe /= NoFrame
    /\ mode = "view"

\* C20: the mode is view until a setMode is accepted, and every accepted
\* setMode(m) sets the mode to m and emits mode:changed exactly once with
\* mode = m and previousMode = the mode held before the call.
C20_SetModeTransitions ==
    /\ mode = "view"
    /\ [][(last'.op = "setMode" /\ last'.outcome = "resolved")
            => /\ mode' = last'.input
               /\ EmitsOne("mode:changed")
               /\ events'[Len(events')].payload =
                     [mode |-> last'.input, previousMode |-> mode]]_vars
    /\ [][mode' /= mode => last'.op = "setMode"]_vars

\* view -> annotate -> view
C20_Witness ==
    /\ last.op = "setMode"
    /\ last.outcome = "resolved"
    /\ mode = "view"
    /\ ModeChanges = 2
    /\ events[Len(events)].payload = [mode |-> "view", previousMode |-> "annotate"]

\* C21: while the engine is mounted with readOnly, the mode is never annotate
\* and no click on the overlay emits pin:placed, whatever setMode calls came
\* before the mount.
C21_ReadOnlyNeverAnnotates ==
    (iframe /= NoFrame /\ options.readOnly)
        => /\ mode /= "annotate"
           /\ ~(last.op = "overlayClick" /\ last.outcome = "resolved")

\* the step just taken ended with an emit of this event
JustEmitted(name) == events /= << >> /\ events[Len(events)].name = name

\* C22: a handler that throws stops neither the handlers registered after it
\* nor the operation that emitted: addComment resolves with its comment still
\* cached and drawn, updateComment, deleteComment and setMode complete, and
\* every registered handler of the event was called.
C22_ThrowingHandlerContained ==
    /\ (last.op \in {"addSettled", "updateSettled", "deleteSettled"}
        /\ last.adapter = "resolved")
          => /\ last.outcome = "resolved"
             /\ events[Len(events)].invoked = HandlersOf(events[Len(events)].name)
    /\ (last.op = "addSettled" /\ last.adapter = "resolved" /\ last.isolated)
          => /\ JustEmitted("comment:created")
             /\ last.value = last.task.comment
             /\ MapHas(comments, last.task.comment.id)
             /\ MapGet(comments, last.task.comment.id) = last.task.comment
             /\ MapHas(pins, last.task.comment.id)
    /\ (last.op = "setMode" /\ last.error = "none")
          => /\ last.outcome = "resolved"
             /\ mode = last.input
             /\ events[Len(events)].invoked = HandlersOf("mode:changed")

\* addComment resolved although the first of the two handlers of
\* comment:created throws
C22_Witness ==
    /\ last.op = "addSettled"
    /\ last.adapter = "resolved"
    /\ last.outcome = "resolved"
    /\ HandlersOf("comment:created") = <<2, 1>>
    /\ 2 \in ThrowingHandlers
    /\ events[Len(events)].invoked = <<2, 1>>
    /\ MapHas(comments, last.task.comment.id)

\* the step just taken called emit
EmitStep ==
    \/ last.op \in {"addSettled", "updateSettled", "deleteSettled"}
          /\ last.adapter = "resolved"
    \/ last.op = "mountLoaded" /\ last.adapter = "rejected"
    \/ last.op = "setMode" /\ last.error = "none"
    \/ last.op \in {"overlayClick", "pinClick"} /\ last.outcome = "resolved"

\* the handlers of the on() calls for this event whose unsubscribe function
\* was not called
LiveHandlers(name) == {r.handler : r \in {s \in BagToSet(subscriptions) : s.event = name}}

\* C23: an emit invokes, in registration order and once each, exactly the
\* handlers registered for its event by an on() call whose unsubscribe
\* function was not called; an unsubscribe ends its own registration only.
C23_EmitInvokesLiveRegistrations ==
    EmitStep =>
        LET e == events[Len(events)]
        IN  /\ {e.invoked[i] : i \in 1..Len(e.invoked)} = LiveHandlers(e.name)
            /\ e.invoked = HandlersOf(e.name)
            /\ \A i, j \in 1..Len(e.invoked) : e.invoked[i] = e.invoked[j] => i = j

\* C24: a click on the overlay emits pin:placed when the mode is annotate and
\* nothing when it is view, and the x and y of every pin:placed lie in
\* [0, 100], so that addComment accepts them.
C24_PinPlacedInRange ==
    last.op = "overlayClick" =>
        /\ last.outcome = "resolved" <=> mode = "annotate"
        /\ last.outcome = "resolved" =>
              /\ JustEmitted("pin:placed")
              /\ events[Len(events)].payload.x \in 0..100
              /\ events[Len(events)].payload.y \in 0..100
              /\ ~CoordinatesThrow(events[Len(events)].payload.x,
                                   events[Len(events)].payload.y)

\* C25: a click on a pin emits comment:clicked once, and the comment of the
\* payload is the cached comment of that id at the time of the click.
C25_ClickCarriesCachedComment ==
    (last.op = "pinClick" /\ MapHas(comments, last.input))
        => /\ JustEmitted("comment:clicked")
           /\ events[Len(events)].payload.comment = MapGet(comments, last.input)

\* C26: when mount() has loaded the stored comments into an empty cache,
\* every unresolved pin shows its 1-based rank by createdAt among the loaded
\* comments, in whatever order load() returned them, and every resolved pin
\* shows the completion marker.
C26_LoadedPinsRanked ==
    (/\ last.op = "mountLoaded"
     /\ last.adapter = "resolved"
     /\ last.outcome = "resolved"
     /\ Len(comments) = Len(last.list)
     /\ Len(pins) = Len(last.list))
        => /\ PinsRanked(comments, pins, overlayPins)
           /\ \A i \in 1..Len(pins) : pins[i].v.resolved => pins[i].v.label = CheckMark

\* the mount in progress is inside waitForContentReady
Stabilizing ==
    \E t \in MountTasks : ~t.cancelled /\ t.pc \in {"raf0", "loop"}

\* C27: isReady() is true only while the engine is mounted and the
\* stabilization wait of its mount has finished; it is false before mount,
\* during the wait and after unmount().
C27_ReadyOnlyAfterWait ==
    /\ isReady => iframe /= NoFrame /\ ~Stabilizing
    /\ iframe = NoFrame => ~isReady

\* C28: while an iframe with a window is mounted, whenever the target stops
\* scrolling the overlay is translated by the negative of the target's scroll
\* offset.  The throttle starts no timer, so nothing moves the overlay
\* between two scroll events and every state is one where scrolling may stop.
C28_OverlayFollowsScroll ==
    (iframe /= NoFrame /\ InDocument(iframe) /\ overlay.attached)
        => scroll.shift = 0 - scroll.offset

\* the pin nodes of the overlay that carry the active flag
ActiveNodes == {n \in BagToSet(overlayPins) : n.active}

\* C29: at most one popover is open and at most one pin carries the active
\* flag, and a pin carries it only if it is the pin of the active comment.
C29_OnePopoverOneActivePin ==
    /\ BagCardinality(overlayDialogs) <= 1
    /\ \A n \in ActiveNodes :
          /\ CopiesIn(n, overlayPins) = 1
          /\ n.id = activePinId
    /\ Cardinality(ActiveNodes) <= 1

\* the mount() call number g has not returned
Mounting(g) == \E t \in MountTasks : t.tid = g

\* C30: every mount() call returns once the animation frames it asked for ran
\* and adapter.load() settled: the wait samples fewer than
\* StabilizationFrames + 1 frames whatever sizes it reads, then mount goes on.
C30_MountTerminates ==
    /\ [](\A t \in MountTasks : t.i < StabilizationFrames)
    /\ \A g \in 1..MaxFrameGeneration : Mounting(g) ~> ~Mounting(g)

\* a wait that used its whole budget without a stable sample and went on to
\* call adapter.load()
C30_Witness ==
    /\ last.op = "mountContinue"
    /\ last.outcome = "loading"
    /\ last.task.pc = "loop"
    /\ last.task.i + 1 = StabilizationFrames
    /\ last.task.stableCount = 0
    /\ \E t \in MountTasks : t.tid = last.task.tid /\ t.pc = "load"

\* C31: an attached overlay captures clicks exactly when the mode is annotate:
\* after mount, after every accepted setMode, and when the handlers of
\* mode:changed are invoked.
C31_CaptureFollowsMode ==
    /\ overlay.attached => (overlay.capture <=> mode = "annotate")
    /\ (last.op = "setMode" /\ last.error = "none" /\ last.handlersSaw.attached)
          => (last.handlersSaw.capture <=> mode = "annotate")

\* the adapter was asked to load and to save only, and load() returned nothing
OnlyAdds ==
    /\ \A i \in 1..Len(adapterCalls) : adapterCalls[i].op \in {"load", "save"}
    /\ \A i \in 1..Len(comments) : comments[i].k \notin {StoredA.id, StoredB.id}

\* C32: when every addComment of a batch has settled, some of them rolled
\* back, every unresolved pin shows the rank of its comment among the comments
\* left in the cache.
C32_RanksAfterBatch ==
    (iframe /= NoFrame /\ tasks = {} /\ OnlyAdds)
        => PinsRanked(comments, pins, overlayPins)

\* C33: after a successful deleteComment(id) no popover of comment id is
\* open, whichever comment is the active one.
C33_DeleteClosesPopover ==
    (last.op = "deleteSettled" /\ last.adapter = "resolved")
        => /\ dialog /= last.task.id
           /\ ~BagIn(last.task.id, overlayDialogs)

\* C34: while the engine is mounted and no call is in flight, the pins are a
\* projection of the cache: the ids with a registered pin and the ids with a
\* pin node in the overlay are the ids of the cache, one node per id; an
\* unmounted engine has no pins.
C34_PinsProjectCache ==
    /\ (iframe /= NoFrame /\ tasks = {})
          => /\ Keys(pins) = Keys(comments)
             /\ {n.id : n \in BagToSet(overlayPins)} = Keys(comments)
             /\ BagCardinality(overlayPins) = Len(comments)
    /\ iframe = NoFrame => (pins = << >> /\ overlayPins = EmptyBag)

\* C35: every cache entry is stored under the key equal to its comment's id
\* and every pin is registered under its comment's id, whatever fields
\* updateComment was given; a successful updateComment leaves the id and the
\* createdAt of its comment as they were.
C35_IdentityStable ==
    /\ \A i \in 1..Len(comments) : comments[i].v.id = comments[i].k
    /\ \A i \in 1..Len(pins) : pins[i].v.id = pins[i].k
    /\ (last.op = "updateSettled" /\ last.adapter = "resolved" /\ last.isolated)
          => /\ MapGet(comments, last.task.id).createdAt
                  = MapGet(last.task.pre.comments, last.task.id).createdAt
             /\ MapGet(comments, last.task.id).id = last.task.id

\* the comment:updated events of comment id emitted while call t was in flight
UpdatedMeanwhile(t) ==
    {i \in (Len(t.pre.events) + 1)..(Len(events) - 1) :
        events[i].name = "comment:updated" /\ events[i].payload.id = t.id}

\* C36: when two updateComment calls on one id were in flight together and
\* both succeeded, the cached comment has the changes of both, the call that
\* completed last winning on the fields both set.
C36_NoLostUpdate ==
    (/\ last.op = "updateSettled"
     /\ last.adapter = "resolved"
     /\ MapHas(comments, last.task.id))
        => LET t == last.task
               c == MapGet(comments, t.id)
           IN  /\ \A f \in DOMAIN t.updates : Has(c, f) /\ c[f] = t.updates[f]
               /\ \A i \in UpdatedMeanwhile(t) :
                     \A f \in DOMAIN events[i].payload.updates \ DOMAIN t.updates :
                         Has(c, f) /\ c[f] = events[i].payload.updates[f]

\* deleteComment(t.id) succeeded while call t was in flight
DeletedMeanwhile(t) ==
    \E i \in (Len(t.pre.events) + 1)..Len(events) :
        events[i].name = "comment:deleted" /\ events[i].payload.id = t.id

\* C37: a comment deleted with success stays out of the cache and has no pin,
\* also when an updateComment on it that started before the deletion resumes
\* after it.
C37_DeletedStaysDeleted ==
    (/\ last.op = "updateSettled"
     /\ last.adapter = "resolved"
     /\ DeletedMeanwhile(last.task))
        => /\ ~MapHas(comments, last.task.id)
           /\ \A i \in 1..Len(getComments) : getComments[i].id /= last.task.id
           /\ ~MapHas(pins, last.task.id)
           /\ \A n \in BagToSet(overlayPins) : n.id /= last.task.id

\* C38: no object handed to a caller is a cache entry: after the caller
\* assigned fields of the comment addComment returned, or of the comment of a
\* comment:created or comment:clicked payload, getComments() returns what it
\* returned before.
C38_HandedObjectsAreCopies ==
    last.op = "callerAssign" => getComments = last.before

\* C39: with a MemoryAdapter and every engine call awaited, while the engine
\* is mounted and no call is pending (after mount, and after each
\* addComment, updateComment and deleteComment, resolved or rejected),
\* getComments() and adapter.load() hold the same comments with the same
\* field values.
C39_CacheEqualsStore ==
    (IsMemory /\ iframe /= NoFrame /\ tasks = {})
        => getComments = memoryLoad(store)

\* the subscriptions of the engine to one event
SubscriptionsTo(name) == Len(HandlersOf(name))

\* C40: whatever the order of registerIframe(iframe), registerIframe(null)
\* and the steps of the pending mounts, once the mounts have settled the
\* provider holds at most one subscription to each engine event, a pin:placed
\* emission calls the provider's handler, and so every onPinPlaced callback,
\* no more than once, and no handleLoad call that registerIframe(null)
\* cancelled has run setIsReady(true).
C40_OneSubscriptionPerEvent ==
    IsReact =>
        /\ MountTasks = {} =>
              \A i \in 1..Len(ProviderEvents) : SubscriptionsTo(ProviderEvents[i]) <= 1
        /\ (MountTasks = {} /\ last.op = "overlayClick" /\ last.outcome = "resolved")
              => Len(events[Len(events)].invoked) <= 1
        /\ ~provider.readyBy.cancelled

====
